---- MODULE Spec2Model ----
(***************************************************************************)
(* State-machine model of src/services/geminiService.ts: the retry         *)
(* executor `withRetry`, the response normalizer (`parseJsonFromText`,     *)
(* `parseMermaidFromText`), the content operations, and the media          *)
(* enrichment pipeline (`generatePresentationImages`,                      *)
(* `generateVideoAssets`).                                                 *)
(*                                                                         *)
(* JavaScript runs the code between two `await`s without interruption, so  *)
(* one action of the model is one such run-to-suspension step.  Inside a   *)
(* step the order of the observable effects is kept in `events`.           *)
(***************************************************************************)
EXTENDS Integers, Sequences, FiniteSets, TLC

VARIABLES
    caller,        \* the operation under way: "none", "direct", "presentation", "video", ...
    rpc,           \* position of withRetry: idle, await_fn, await_sleep, resolved, rejected
    maxAttempts,   \* withRetry parameter
    initialDelay,  \* withRetry parameter
    hasOnRetry,    \* whether an onRetry observer was passed
    attempt,       \* local `attempt`
    delay,         \* local `delay`
    calls,         \* invocations of fn made by the current withRetry run
    fnLog,         \* outcome of each invocation of fn in the current run
    sleeps,        \* durations of the completed sleep(delay) suspensions of the run
    outcome,       \* how the current withRetry run settled
    inFlight,      \* fn promises started and not yet settled
    events,        \* observable effects, in program order
    ai,            \* the shared client is non-null
    items,         \* the input document's items (slides / parsed scenes)
    out,           \* updatedSlides / generatedScenes
    idx,           \* loop variable i
    ppc,           \* position of the pipeline / of the running operation
    ret,           \* value the pipeline / the operation returned
    content,       \* the operation's input content
    text,          \* response text handed to the normalizer
    parsed,        \* what the normalizer returned for `text`
    origin,        \* how the environment produced `text`
    quizPage,      \* QuizPage: its React state, last render, effects and promises
    homePage,      \* HomePage: isLoading, error and the position of handleSubmit
    diagram,       \* MermaidDiagram: its React state and the renderDiagram runs under way
    themeButton    \* ThemeToggleButton: theme, localStorage, media query, html class

retryVars == <<rpc, maxAttempts, initialDelay, hasOnRetry, attempt, delay,
               calls, fnLog, sleeps, outcome>>
pipeVars  == <<ai, items, out, idx, ppc, ret>>
textVars  == <<content, text, parsed, origin>>
uiVars    == <<quizPage, homePage, diagram, themeButton>>
serviceVars == <<caller, retryVars, inFlight, events, pipeVars, textVars>>
vars      == <<serviceVars, uiVars>>

\* A component that is not mounted.
NotMounted == [mounted |-> FALSE]
UiIdle ==
    /\ quizPage = NotMounted
    /\ homePage = NotMounted
    /\ diagram = NotMounted
    /\ themeButton = NotMounted

----------------------------------------------------------------------------
(* Bounds of the model *)

MaxMaxAttempts == 4
MaxInitialDelay == 2
MaxItems == 2
MaxTextLen == 3
MaxStrLen == 2
MaxContentLen == 32

----------------------------------------------------------------------------
(* Error values and JSON.stringify(err) *)

RESOURCE_EXHAUSTED ==
    <<"R","E","S","O","U","R","C","E","_","E","X","H","A","U","S","T","E","D">>
UNAVAILABLE == <<"U","N","A","V","A","I","L","A","B","L","E">>
StatusKey == <<"{", "\"", "s","t","a","t","u","s", "\"", ":">>

\* Values fn may reject with.  The last two have no JSON text.
Errors ==
    { "status429", "status503", "resourceExhausted", "unavailable",
      "requestId4295", "status401", "status42and9", "plainError",
      "undefinedValue", "circularObject" }

\* JSON.stringify(err): a text, the value undefined, or a thrown TypeError.
Stringify(err) ==
    CASE err = "status429" ->
           [kind |-> "text", s |-> StatusKey \o <<"4","2","9","}">>]
      [] err = "status503" ->
           [kind |-> "text", s |-> StatusKey \o <<"5","0","3","}">>]
      [] err = "resourceExhausted" ->
           [kind |-> "text", s |-> StatusKey \o <<"\"">> \o RESOURCE_EXHAUSTED \o <<"\"","}">>]
      [] err = "unavailable" ->
           [kind |-> "text", s |-> StatusKey \o <<"\"">> \o UNAVAILABLE \o <<"\"","}">>]
      [] err = "requestId4295" ->
           [kind |-> "text", s |-> <<"{","\"","i","d","\"",":","4","2","9","5","}">>]
      [] err = "status401" ->
           [kind |-> "text", s |-> StatusKey \o <<"4","0","1","}">>]
      [] err = "status42and9" ->
           [kind |-> "text", s |-> StatusKey \o <<"4","2",",","\"","n","\"",":","9","}">>]
      [] err = "plainError" ->
           [kind |-> "text", s |-> <<"{","}">>]
      [] err = "undefinedValue" -> [kind |-> "undefined", s |-> <<>>]
      [] err = "circularObject" -> [kind |-> "throws", s |-> <<>>]

\* String.prototype.includes
Includes(s, sub) ==
    \E k \in 1..(Len(s) - Len(sub) + 1) : SubSeq(s, k, k + Len(sub) - 1) = sub

IsRateLimitErrorAny4xx(errorMessage) ==
    \/ Includes(errorMessage, <<"4">>)
    \/ Includes(errorMessage, <<"5","0","3">>)
    \/ Includes(errorMessage, RESOURCE_EXHAUSTED)
    \/ Includes(errorMessage, UNAVAILABLE)

IsRateLimitError(errorMessage) ==
    \/ Includes(errorMessage, <<"4","2","9">>)
    \/ Includes(errorMessage, <<"5","0","3">>)
    \/ Includes(errorMessage, RESOURCE_EXHAUSTED)
    \/ Includes(errorMessage, UNAVAILABLE)

\* What fn resolves with: an image response carrying bytes or carrying none,
\* or the text response of the slide outline request.
Values ==
    IF caller = "generatePresentationContent" THEN {"response"}
    ELSE {"imageBytes", "noImage"}

\* The pipeline's image calls are modelled with one error of each class.
FnErrors ==
    IF caller = "direct" THEN Errors
    ELSE {"status429", "status401", "undefinedValue"}

Ev(e, a, b) == [e |-> e, a |-> a, b |-> b]

----------------------------------------------------------------------------
(* withRetry *)

\* while (attempt < maxAttempts)
LoopGuard(att, ma) == att < ma

RetryAllowedInclusive(isRateLimitError, att, ma) == isRateLimitError /\ att <= ma

RetryAllowedOneShort(isRateLimitError, att, ma) == isRateLimitError /\ att < ma - 1

\* if (isRateLimitError && attempt < maxAttempts)
RetryAllowed(isRateLimitError, att, ma) == isRateLimitError /\ att < ma

BackoffTriple(d) == d * 3

\* delay *= 2
Backoff(d) == d * 2

ObserverEventsZeroBased(att, d) ==
    IF ~hasOnRetry THEN <<>>
    ELSE IF caller = "direct" THEN <<Ev("onRetry", att - 1, d)>>
    ELSE <<Ev("onRetry", att - 1, d), Ev("progress.retry", idx + 1, d)>>

\* The observer the pipeline passes to withRetry reports through onProgress.
ObserverEvents(att, d) ==
    IF ~hasOnRetry THEN <<>>
    ELSE IF caller = "direct" THEN <<Ev("onRetry", att, d)>>
    ELSE <<Ev("onRetry", att, d), Ev("progress.retry", idx + 1, d)>>

\* Top of the while loop: invoke fn, or fall out to the final throw.
LoopHead(ev, att, ma, n, log) ==
    IF LoopGuard(att, ma)
    THEN /\ rpc' = "await_fn"
         /\ calls' = n + 1
         /\ inFlight' = inFlight + 1
         /\ events' = Append(ev, Ev("call", idx', n + 1))
         /\ outcome' = [kind |-> "pending", v |-> "none"]
         /\ fnLog' = log
    ELSE /\ rpc' = "rejected"
         /\ calls' = n
         /\ inFlight' = inFlight
         /\ events' = ev
         /\ outcome' = [kind |-> "err", v |-> "ExceededRetryAttempts"]
         /\ fnLog' = log

\* Entry of withRetry up to its first suspension.
WithRetryStart(ev, ma, idl, obs) ==
    /\ maxAttempts' = ma
    /\ initialDelay' = idl
    /\ hasOnRetry' = obs
    /\ attempt' = 0
    /\ delay' = idl
    /\ sleeps' = <<>>
    /\ LoopHead(ev, 0, ma, 0, <<>>)

\* return await fn();
FnResolves ==
    /\ rpc = "await_fn"
    /\ \E v \in Values :
         /\ rpc' = "resolved"
         /\ outcome' = [kind |-> "ok", v |-> v]
         /\ fnLog' = Append(fnLog, [kind |-> "ok", v |-> v])
         /\ events' = Append(events, Ev("ok", idx, calls))
    /\ inFlight' = inFlight - 1
    /\ UNCHANGED <<uiVars, caller, maxAttempts, initialDelay, hasOnRetry, attempt, delay,
                   calls, sleeps, pipeVars, textVars>>

\* catch (err) of a failure that is retried: observer, then sleep(delay).
FnRejectsRetried ==
    /\ rpc = "await_fn"
    /\ \E err \in FnErrors :
         /\ Stringify(err).kind = "text"
         /\ RetryAllowed(IsRateLimitError(Stringify(err).s), attempt + 1, maxAttempts)
         /\ fnLog' = Append(fnLog, [kind |-> "err", v |-> err])
         /\ events' = Append(events, Ev("fail", idx, calls))
                        \o ObserverEvents(attempt + 1, delay)
                        \o <<Ev("sleep", delay, 0)>>
    /\ attempt' = attempt + 1
    /\ rpc' = "await_sleep"
    /\ inFlight' = inFlight - 1
    /\ UNCHANGED <<uiVars, caller, maxAttempts, initialDelay, hasOnRetry, delay, calls,
                   sleeps, outcome, pipeVars, textVars>>

\* catch (err) of a failure that is thrown on: `throw err`, or the TypeError
\* raised by JSON.stringify / by `.includes` on undefined.
FnRejectsThrown ==
    /\ rpc = "await_fn"
    /\ \E err \in FnErrors :
         /\ fnLog' = Append(fnLog, [kind |-> "err", v |-> err])
         /\ IF Stringify(err).kind = "text"
            THEN /\ ~RetryAllowed(IsRateLimitError(Stringify(err).s),
                                  attempt + 1, maxAttempts)
                 /\ outcome' = [kind |-> "err", v |-> err]
            ELSE outcome' = [kind |-> "err", v |-> "TypeError"]
    /\ attempt' = attempt + 1
    /\ rpc' = "rejected"
    /\ inFlight' = inFlight - 1
    /\ events' = Append(events, Ev("fail", idx, calls))
    /\ UNCHANGED <<uiVars, caller, maxAttempts, initialDelay, hasOnRetry, delay, calls,
                   sleeps, pipeVars, textVars>>

\* await sleep(delay) is over: delay *= 2, back to the top of the loop.
SleepDone ==
    /\ rpc = "await_sleep"
    /\ UNCHANGED <<uiVars, caller, maxAttempts, initialDelay, hasOnRetry, attempt, pipeVars, textVars>>
    /\ sleeps' = Append(sleeps, delay)
    /\ delay' = Backoff(delay)
    /\ LoopHead(events \o <<Ev("wake", delay, 0), Ev("double", Backoff(delay), 0)>>,
                attempt, maxAttempts, calls, fnLog)

----------------------------------------------------------------------------
(* Response normalizer: parseJsonFromText, parseMermaidFromText             *)
(*                                                                         *)
(* A text is a sequence of symbols.  A symbol is one punctuation or        *)
(* whitespace character, or an unbroken run of word characters ("json",    *)
(* "true", "a", "1").                                                       *)

Quote == "\""
\* The backtick character.
Tick == "BACKTICK"
Whitespace == {" ", "\n"}
NonWord == {"{", "}", "[", "]", ",", ":", Quote, Tick, " ", "\n", "-", ">"}
\* \w
IsWord(c) == c \notin NonWord
Digits == {"0", "1", "2"}

SetMin(S) == CHOOSE x \in S : \A y \in S : x <= y
SetMax(S) == CHOOSE x \in S : \A y \in S : x >= y

\* String.prototype.trim
Trim(s) ==
    LET keep == { k \in 1..Len(s) : s[k] \notin Whitespace }
    IN IF keep = {} THEN <<>> ELSE SubSeq(s, SetMin(keep), SetMax(keep))

\* First position from i on that holds no whitespace (Len(s) + 1 if none).
SkipWs(s, i) == SetMin({ k \in i..Len(s) + 1 : k > Len(s) \/ s[k] \notin Whitespace })

\* First position from i on that holds no word symbol.
SkipWord(s, i) == SetMin({ k \in i..Len(s) + 1 : k > Len(s) \/ ~IsWord(s[k]) })

\* The text opens and closes with three backticks that do not overlap.
Fenced(s) ==
    /\ Len(s) >= 6
    /\ \A k \in 1..3 : s[k] = Tick /\ s[Len(s) - 3 + k] = Tick

NoMatch == [matched |-> FALSE, g |-> <<>>]

\* jsonStr.match(/^```(\w*)?\s*\n?(.*?)\n?\s*```$/s), g is group 2: the
\* greedy tag and whitespace are taken off the front, and the lazy group
\* stops where only whitespace is left before the closing fence.
JsonFenceMatch(s) ==
    IF ~Fenced(s) THEN NoMatch
    ELSE LET inner == SubSeq(s, 4, Len(s) - 3)
             n == Len(inner)
             q == SkipWs(inner, SkipWord(inner, 1))
             e == SetMin({ k \in q - 1..n :
                             \A j \in k + 1..n : inner[j] \in Whitespace })
         IN [matched |-> TRUE, g |-> SubSeq(inner, q, e)]

\* jsonStr.replace(/}\s*{/g, '},{')
RECURSIVE InsertMissingCommas(_, _)
InsertMissingCommas(s, i) ==
    IF i > Len(s) THEN <<>>
    ELSE LET j == SkipWs(s, i + 1)
         IN IF s[i] = "}" /\ j <= Len(s) /\ s[j] = "{"
            THEN <<"}", ",", "{">> \o InsertMissingCommas(s, j + 1)
            ELSE <<s[i]>> \o InsertMissingCommas(s, i + 1)

\* JavaScript values as JSON.parse builds them: `s` holds the symbols of a
\* string, literal or number, `a` the elements of an array, `o` the members
\* [k, v] of an object in insertion order.
Val(t, s, a, o) == [t |-> t, s |-> s, a |-> a, o |-> o]
NullValue == Val("lit", <<"null">>, <<>>, <<>>)
StrValue(body) == Val("str", body, <<>>, <<>>)
ArrValue(elems) == Val("arr", <<>>, elems, <<>>)
ObjValue(members) == Val("obj", <<>>, <<>>, members)
\* An exception leaving a function, in place of a returned value.
Thrown(name) == Val("throw", <<name>>, <<>>, <<>>)

JsonOk(v, next) == [ok |-> TRUE, v |-> v, next |-> next]
SyntaxError == [ok |-> FALSE, v |-> NullValue, next |-> 0]

\* A string literal opening at s[i]; a raw line break inside it is an error.
JsonStringAt(s, i) ==
    LET closes == { k \in i + 1..Len(s) : s[k] = Quote }
    IN IF closes = {} THEN SyntaxError
       ELSE LET j == SetMin(closes)
                body == SubSeq(s, i + 1, j - 1)
            IN IF \E k \in 1..Len(body) : body[k] = "\n" THEN SyntaxError
               ELSE JsonOk(StrValue(body), j + 1)

\* true / false / null / a number, at s[i].
JsonWordAt(s, i) ==
    LET run == SubSeq(s, i, SkipWord(s, i) - 1)
    IN IF run \in {<<"true">>, <<"false">>, <<"null">>}
       THEN JsonOk(Val("lit", run, <<>>, <<>>), i + 1)
       ELSE IF /\ run # <<>>
               /\ \A k \in 1..Len(run) : run[k] \in Digits
               /\ (Len(run) = 1 \/ run[1] # "0")
            THEN JsonOk(Val("num", run, <<>>, <<>>), i + Len(run))
            ELSE SyntaxError

\* obj[key] = val: a repeated key keeps its place and takes the later value.
PutMember(members, key, val) ==
    IF \E n \in 1..Len(members) : members[n].k = key
    THEN [n \in 1..Len(members) |->
            IF members[n].k = key THEN [k |-> key, v |-> val] ELSE members[n]]
    ELSE Append(members, [k |-> key, v |-> val])

RECURSIVE JsonValueAt(_, _), JsonElementsAt(_, _, _), JsonMembersAt(_, _, _)

\* The value that starts at or after s[i0].
JsonValueAt(s, i0) ==
    LET i == SkipWs(s, i0)
    IN IF i > Len(s) THEN SyntaxError
       ELSE IF s[i] = "[" THEN
            LET j == SkipWs(s, i + 1)
            IN IF j <= Len(s) /\ s[j] = "]" THEN JsonOk(ArrValue(<<>>), j + 1)
               ELSE JsonElementsAt(s, j, <<>>)
       ELSE IF s[i] = "{" THEN
            LET j == SkipWs(s, i + 1)
            IN IF j <= Len(s) /\ s[j] = "}" THEN JsonOk(ObjValue(<<>>), j + 1)
               ELSE JsonMembersAt(s, j, <<>>)
       ELSE IF s[i] = Quote THEN JsonStringAt(s, i)
       ELSE IF IsWord(s[i]) THEN JsonWordAt(s, i)
       ELSE SyntaxError

\* The elements of an array from s[i] on, `acc` being those already read.
JsonElementsAt(s, i, acc) ==
    LET r == JsonValueAt(s, i)
        j == SkipWs(s, r.next)
    IN IF ~r.ok \/ j > Len(s) THEN SyntaxError
       ELSE IF s[j] = "," THEN JsonElementsAt(s, j + 1, Append(acc, r.v))
       ELSE IF s[j] = "]" THEN JsonOk(ArrValue(Append(acc, r.v)), j + 1)
       ELSE SyntaxError

\* The members of an object from s[i] on, `acc` being those already read.
JsonMembersAt(s, i, acc) ==
    LET a == SkipWs(s, i)
        key == IF a <= Len(s) /\ s[a] = Quote THEN JsonStringAt(s, a) ELSE SyntaxError
        c == SkipWs(s, key.next)
        r == JsonValueAt(s, c + 1)
        j == SkipWs(s, r.next)
    IN IF ~key.ok \/ c > Len(s) THEN SyntaxError
       ELSE IF s[c] # ":" THEN SyntaxError
       ELSE IF ~r.ok \/ j > Len(s) THEN SyntaxError
       ELSE IF s[j] = "," THEN JsonMembersAt(s, j + 1, PutMember(acc, key.v.s, r.v))
       ELSE IF s[j] = "}" THEN JsonOk(ObjValue(PutMember(acc, key.v.s, r.v)), j + 1)
       ELSE SyntaxError

\* JSON.parse(s)
JsonParse(s) ==
    LET r == JsonValueAt(s, 1)
    IN IF r.ok /\ SkipWs(s, r.next) > Len(s) THEN r ELSE SyntaxError

TryParseRethrows(r) == IF r.ok THEN r.v ELSE Thrown("SyntaxError")

\* try { return JSON.parse(jsonStr) } catch (e) { console.error(...); return null }
TryParse(r) == IF r.ok THEN r.v ELSE NullValue

ParseJsonFromTextNoRepair(t) ==
    LET jsonStr == Trim(t)
        match == JsonFenceMatch(jsonStr)
        inner == IF match.matched /\ match.g # <<>> THEN Trim(match.g) ELSE jsonStr
    IN TryParse(JsonParse(inner))

\* parseJsonFromText(text)
ParseJsonFromText(t) ==
    LET jsonStr == Trim(t)
        match == JsonFenceMatch(jsonStr)
        inner == IF match.matched /\ match.g # <<>> THEN Trim(match.g) ELSE jsonStr
    IN TryParse(JsonParse(InsertMissingCommas(inner, 1)))

GraphTD == <<"g", "r", "a", "p", "h", " ", "T", "D">>
GraphLR == <<"g", "r", "a", "p", "h", " ", "L", "R">>

\* String.prototype.startsWith
StartsWith(s, prefix) ==
    Len(s) >= Len(prefix) /\ SubSeq(s, 1, Len(prefix)) = prefix

\* mermaidCode.match(/^```(?:mermaid)?\s*\n(.*?)\n\s*```$/s), g is group 1.
\* The greedy \s* gives back up to the last line break that still lets the
\* rest match; the lazy group ends at the first line break after which only
\* whitespace is left before the closing fence.
MermaidFenceMatch(s) ==
    IF ~Fenced(s) THEN NoMatch
    ELSE LET from == IF s[4] = "mermaid" THEN 5 ELSE 4
             inner == SubSeq(s, from, Len(s) - 3)
             n == Len(inner)
             Opens(a) == /\ inner[a] = "\n"
                         /\ \A j \in 1..a - 1 : inner[j] \in Whitespace
             Closes(b) == /\ inner[b] = "\n"
                          /\ \A j \in b + 1..n : inner[j] \in Whitespace
             as == { a \in 1..n : Opens(a) /\ \E b \in a + 1..n : Closes(b) }
         IN IF as = {} THEN NoMatch
            ELSE LET a == SetMax(as)
                     b == SetMin({ k \in a + 1..n : Closes(k) })
                 IN [matched |-> TRUE, g |-> SubSeq(inner, a + 1, b - 1)]

AcceptedDiagramAnywhere(code) ==
    \E k \in 0..Len(code) :
        \/ StartsWith(SubSeq(code, k + 1, Len(code)), GraphTD)
        \/ StartsWith(SubSeq(code, k + 1, Len(code)), GraphLR)

\* mermaidCode.startsWith('graph TD') || mermaidCode.startsWith('graph LR')
AcceptedDiagram(code) == StartsWith(code, GraphTD) \/ StartsWith(code, GraphLR)

\* parseMermaidFromText(text)
ParseMermaidFromText(t) ==
    LET mermaidCode == Trim(t)
        match == MermaidFenceMatch(mermaidCode)
        inner == IF match.matched /\ match.g # <<>> THEN Trim(match.g) ELSE mermaidCode
    IN IF AcceptedDiagram(inner) THEN StrValue(inner) ELSE NullValue

----------------------------------------------------------------------------
(* Texts the environment hands to the normalizer *)

Seqs(S, n) == UNION { [1..k -> S] : k \in 0..n }

\* Texts of up to MaxTextLen symbols, well formed or not.
RawSyms == {"{", "}", "[", "]", ",", ":", Quote, Tick, "\n", "json", "1", "a"}
RawTexts == Seqs(RawSyms, MaxTextLen)

\* JSON values: strings of up to MaxStrLen symbols, literals, numbers, and
\* arrays and objects over the short ones.
StrBodies == Seqs({"a", "}", "{", " "}, MaxStrLen)
Atoms ==
    { StrValue(b) : b \in StrBodies }
        \cup { NullValue, Val("lit", <<"true">>, <<>>, <<>>), Val("num", <<"1">>, <<>>, <<>>) }
SmallAtoms ==
    { StrValue(<<>>), StrValue(<<"a">>), StrValue(<<"}", "{">>),
      Val("lit", <<"true">>, <<>>, <<>>), Val("num", <<"1">>, <<>>, <<>>) }
Member(key, x) == [k |-> <<key>>, v |-> x]
SmallObjs ==
    { ObjValue(<<>>) }
        \cup { ObjValue(<<Member(key, x)>>) : key \in {"a", "b"}, x \in SmallAtoms }
Arrays == { ArrValue(e) : e \in Seqs(SmallAtoms \cup SmallObjs, 2) }
PairObjs == { ObjValue(<<Member("a", x), Member("b", y)>>) : x, y \in SmallAtoms }
JsonValues == Atoms \cup SmallObjs \cup Arrays \cup PairObjs

RECURSIVE JoinWith(_, _)
JoinWith(parts, sep) ==
    IF parts = <<>> THEN <<>>
    ELSE IF Len(parts) = 1 THEN parts[1]
    ELSE parts[1] \o sep \o JoinWith(Tail(parts), sep)

\* The text JSON.stringify(v) gives for a value.
RECURSIVE JsonText(_)
JsonText(v) ==
    CASE v.t = "str" -> <<Quote>> \o v.s \o <<Quote>>
      [] v.t \in {"lit", "num"} -> v.s
      [] v.t = "arr" ->
            <<"[">> \o JoinWith([k \in 1..Len(v.a) |-> JsonText(v.a[k])], <<",">>)
                    \o <<"]">>
      [] v.t = "obj" ->
            <<"{">> \o JoinWith([k \in 1..Len(v.o) |->
                                    <<Quote>> \o v.o[k].k \o <<Quote, ":">>
                                        \o JsonText(v.o[k].v)], <<",">>)
                    \o <<"}">>

Ticks == <<Tick, Tick, Tick>>

\* How a body is wrapped before it reaches the normalizer.
Wrap(s, wrap) ==
    CASE wrap = "none" -> s
      [] wrap = "fence" -> Ticks \o <<"\n">> \o s \o <<"\n">> \o Ticks
      [] wrap = "jsonFence" -> Ticks \o <<"json", "\n">> \o s \o <<"\n">> \o Ticks
      [] wrap = "mermaidFence" -> Ticks \o <<"mermaid", "\n">> \o s \o <<"\n">> \o Ticks
      [] wrap = "paddedFence" ->
            <<" ", "\n">> \o Ticks \o <<"mermaid", " ", "\n", " ">> \o s
                \o <<" ", "\n", " ">> \o Ticks \o <<"\n">>
      [] wrap = "padded" -> <<"\n", " ">> \o s \o <<" ", "\n">>
      [] wrap = "sameLineFence" -> Ticks \o <<"mermaid", " ">> \o s \o <<"\n">> \o Ticks

\* Diagram bodies: no whitespace at either end.
GraphTB == <<"g", "r", "a", "p", "h", " ", "T", "B">>
DiagramHeads ==
    { GraphTD, GraphLR, GraphTB, <<"g", "r", "a", "p", "h">>,
      <<"a", " ">> \o GraphTD, <<"-", "-", ">">> \o GraphLR }
DiagramTails ==
    { <<>>, <<"\n", "a", "-", "-", ">", "b">>, <<"a">>,
      <<" ", "\n", "\n", "a", "-", "-", ">", "b", "\n", "b", "-", "-", ">", "a">> }
DiagramBodies == { h \o t : h \in DiagramHeads, t \in DiagramTails } \cup { <<>> }

\* Where a text came from: a raw text, a serialized value, two object
\* literals written one after the other, a diagram body; and its wrapping.
Origin(kind, v, w, body, wrap) ==
    [kind |-> kind, v |-> v, w |-> w, body |-> body, wrap |-> wrap]
NoOrigin == Origin("none", NullValue, NullValue, <<>>, "none")

Origins ==
    { Origin("raw", NullValue, NullValue, s, "none") : s \in RawTexts }
        \cup { Origin("value", v, NullValue, <<>>, wrap) :
                 v \in JsonValues, wrap \in {"none", "fence", "jsonFence", "padded"} }
        \cup { Origin(kind, v, w, <<>>, wrap) :
                 kind \in {"joined", "joinedInArray"}, v \in SmallObjs, w \in SmallObjs,
                 wrap \in {"none", "fence", "jsonFence"} }
        \cup { Origin("diagram", NullValue, NullValue, b, wrap) :
                 b \in DiagramBodies,
                 wrap \in {"none", "fence", "jsonFence", "mermaidFence", "paddedFence",
                           "padded", "sameLineFence"} }

\* The text an origin stands for.
Render(o) ==
    CASE o.kind \in {"raw", "diagram"} -> Wrap(o.body, o.wrap)
      [] o.kind = "value" -> Wrap(JsonText(o.v), o.wrap)
      [] o.kind = "joined" -> Wrap(JsonText(o.v) \o JsonText(o.w), o.wrap)
      [] o.kind = "joinedInArray" ->
            Wrap(<<"[">> \o JsonText(o.v) \o JsonText(o.w) \o <<"]">>, o.wrap)
      [] OTHER -> <<>>

\* Nothing has been handed to the normalizer or to an operation.
NotParsed == Val("none", <<>>, <<>>, <<>>)

TextIdle ==
    /\ content = 0
    /\ text = <<>>
    /\ parsed = NotParsed
    /\ origin = NoOrigin

----------------------------------------------------------------------------
(* withRetry called on its own *)

RetryIdle ==
    /\ rpc = "idle"
    /\ maxAttempts = 0 /\ initialDelay = 0 /\ hasOnRetry = FALSE
    /\ attempt = 0 /\ delay = 0 /\ calls = 0
    /\ fnLog = <<>> /\ sleeps = <<>>
    /\ outcome = [kind |-> "pending", v |-> "none"]

PipeIdle ==
    /\ ai = FALSE /\ items = <<>> /\ out = <<>> /\ idx = 0
    /\ ppc = "idle" /\ ret = [kind |-> "none", slides |-> <<>>]

InitRetry ==
    /\ caller = "none"
    /\ RetryIdle
    /\ PipeIdle
    /\ TextIdle
    /\ inFlight = 0
    /\ events = <<>>
    /\ UiIdle

DirectCall ==
    /\ caller = "none"
    /\ rpc = "idle"
    /\ caller' = "direct"
    /\ UNCHANGED uiVars
    /\ UNCHANGED <<pipeVars, textVars>>
    /\ \E ma \in -1..MaxMaxAttempts, idl \in 0..MaxInitialDelay, obs \in BOOLEAN :
         WithRetryStart(events, ma, idl, obs)

NextRetry ==
    \/ DirectCall
    \/ FnResolves
    \/ FnRejectsRetried
    \/ FnRejectsThrown
    \/ SleepDone

SpecRetry == InitRetry /\ [][NextRetry]_vars

----------------------------------------------------------------------------
(* Media enrichment pipeline *)

AbsentUrl == [kind |-> "absent", prompt |-> "", seed |-> -1]
StaleUrl == [kind |-> "stale", prompt |-> "", seed |-> -1]

\* Slides / scenes before enrichment; the second one carries an earlier imageUrl.
ItemPool ==
    { [imagePrompt |-> "promptA", text |-> "textA", imageUrl |-> AbsentUrl],
      [imagePrompt |-> "promptB", text |-> "textB", imageUrl |-> StaleUrl] }

Docs == UNION { [1..n -> ItemPool] : n \in 0..MaxItems }

\* getFallbackImageUrl(prompt, `${i}-${...}`): the URL template around the
\* encoded prompt and the seed; the random part of the seed is left out.
GetFallbackImageUrl(prompt, i) == [kind |-> "fallback", prompt |-> prompt, seed |-> i]

\* `data:${image.mimeType};base64,${image.imageBytes}`
DataUrl == [kind |-> "data", prompt |-> "", seed |-> -1]

ImageUrlForKeepsOnError(o, item, i) ==
    IF o.kind = "ok" /\ o.v = "imageBytes" THEN DataUrl
    ELSE IF o.kind = "ok" THEN GetFallbackImageUrl(item.imagePrompt, i)
    ELSE item.imageUrl

\* The image reference an item gets from how withRetry settled.
ImageUrlFor(o, item, i) ==
    IF o.kind = "ok" /\ o.v = "imageBytes" THEN DataUrl
    ELSE GetFallbackImageUrl(item.imagePrompt, i)

WithImageUrlNoSpread(item, url) ==
    [imagePrompt |-> item.imagePrompt, text |-> "", imageUrl |-> url]

\* { ...slide, imageUrl }
WithImageUrl(item, url) == [item EXCEPT !.imageUrl = url]

NeedsDelayAfterSecond(i) == i > 1

\* if (i > 0)
NeedsDelay(i) == i > 0

InterItemDelayMs == 1000
ImageMaxAttempts == 3
ImageInitialDelay == 1000

\* The scenes generateVideoAssets returns.
Document(slides) == [kind |-> "doc", slides |-> slides]
\* presentation.title of the input, and { ...presentation, slides: updatedSlides }
PresentationTitle == "title"
PresentationWith(slides) ==
    [kind |-> "doc", title |-> PresentationTitle, slides |-> slides]
NoDocument == [kind |-> "null", slides |-> <<>>]

ItemBodySilent(ev, i) ==
    /\ ppc' = "await_retry"
    /\ ret' = ret
    /\ WithRetryStart(ev, ImageMaxAttempts, ImageInitialDelay, TRUE)

\* Body of one loop iteration from the onProgress call to the first await.
ItemBody(ev, i) ==
    /\ ppc' = "await_retry"
    /\ ret' = ret
    /\ WithRetryStart(Append(ev, Ev("progress.creating", i + 1, Len(items'))),
                      ImageMaxAttempts, ImageInitialDelay, TRUE)

\* for (let i = ...; i < length; ...): the loop condition and what follows it
\* up to the next await, or the return after the loop.
LoopTop(ev, i) ==
    IF i < Len(items')
    THEN IF NeedsDelay(i)
         THEN /\ ppc' = "await_delay"
              /\ ret' = ret
              /\ events' = Append(ev, Ev("delay", InterItemDelayMs, i))
              /\ rpc' = "idle"
              /\ inFlight' = inFlight
              /\ UNCHANGED <<maxAttempts, initialDelay, hasOnRetry, attempt, delay,
                             calls, fnLog, sleeps, outcome>>
         ELSE ItemBody(ev, i)
    ELSE /\ ppc' = "done"
         /\ ret' = IF caller' = "presentation"
                   THEN PresentationWith(out')
                   ELSE Document(out')
         /\ events' = Append(ev, Ev("progress.complete", Len(out'), 0))
         /\ rpc' = "idle"
         /\ inFlight' = inFlight
         /\ UNCHANGED <<maxAttempts, initialDelay, hasOnRetry, attempt, delay,
                        calls, fnLog, sleeps, outcome>>

\* generatePresentationImages, if (!ai): every slide gets the fallback URL.
PresentationNoClient ==
    /\ caller = "none" /\ ppc = "idle" /\ ~ai
    /\ caller' = "presentation"
    /\ UNCHANGED uiVars
    /\ \E doc \in Docs :
         /\ items' = doc
         /\ out' = [k \in 1..Len(doc) |->
                      WithImageUrl(doc[k], GetFallbackImageUrl(doc[k].imagePrompt, k - 1))]
         /\ events' = events
                \o [k \in 1..Len(doc) |-> Ev("push", k - 1, 0)]
                \o <<Ev("progress.fallback", 0, 0)>>
    /\ ret' = PresentationWith(out')
    /\ ppc' = "done"
    /\ UNCHANGED <<ai, idx, inFlight, retryVars, textVars>>

\* generatePresentationImages with a client, up to its first await.
PresentationStart ==
    /\ caller = "none" /\ ppc = "idle" /\ ai
    /\ caller' = "presentation"
    /\ UNCHANGED uiVars
    /\ \E doc \in Docs : items' = doc
    /\ out' = <<>>
    /\ idx' = 0
    /\ UNCHANGED <<ai, textVars>>
    /\ LoopTop(Append(events, Ev("progress.start", 0, 0)), 0)

\* generateVideoAssets, if (!ai).
VideoNoClient ==
    /\ caller = "none" /\ ppc = "idle" /\ ~ai
    /\ caller' = "video"
    /\ UNCHANGED uiVars
    /\ events' = Append(events, Ev("progress.fallback", 0, 0))
    /\ ret' = NoDocument
    /\ ppc' = "done"
    /\ UNCHANGED <<ai, items, out, idx, inFlight, retryVars, textVars>>

\* generateVideoAssets with a client, up to `await ai.models.generateContent`.
VideoStart ==
    /\ caller = "none" /\ ppc = "idle" /\ ai
    /\ caller' = "video"
    /\ UNCHANGED uiVars
    /\ events' = Append(events, Ev("progress.script", 0, 0))
    /\ ppc' = "await_script"
    /\ UNCHANGED <<ai, items, out, idx, ret, inFlight, retryVars, textVars>>

\* A scene object of the script, as the model returns it.
SceneJson(item) ==
    ObjValue(<<Member("script", StrValue(<<item.text>>)),
               Member("imagePrompt", StrValue(<<item.imagePrompt>>))>>
             \o (IF item.imageUrl = StaleUrl
                 THEN <<Member("imageUrl", StrValue(<<"stale">>))>>
                 ELSE <<>>))
ScriptJson(doc) == ArrValue([k \in 1..Len(doc) |-> SceneJson(doc[k])])

\* What the script request resolves with: scene arrays, fenced or not, scene
\* arrays with a comma missing, other JSON values (an array whose scene has no
\* script among them), and texts that are not JSON.
ScriptOrigins ==
    { Origin("value", ScriptJson(doc), NullValue, <<>>, wrap) :
        doc \in Docs, wrap \in {"none", "jsonFence"} }
        \cup { Origin("joinedInArray", SceneJson(x), SceneJson(y), <<>>, "jsonFence") :
                 x \in ItemPool, y \in ItemPool }
        \cup { Origin("value", v, NullValue, <<>>, "none") :
                 v \in { NullValue, ObjValue(<<>>), StrValue(<<>>), StrValue(<<"a">>),
                         ArrValue(<<ObjValue(<<Member("imagePrompt", StrValue(<<"promptA">>))>>)>>),
                         Val("num", <<"0">>, <<>>, <<>>), Val("num", <<"1">>, <<>>, <<>>) } }
        \cup { Origin("raw", NullValue, NullValue, body, "none") :
                 body \in { <<>>, <<"{">>, <<"[", "{", "]">> } }
RejectedOrigin == Origin("rejected", NullValue, NullValue, <<>>, "none")

\* A scene that has neither script nor imagePrompt.
UndefinedItem == [imagePrompt |-> "undefined", text |-> "undefined", imageUrl |-> AbsentUrl]

\* scenesData[i]
SceneItem(e) ==
    IF \E it \in ItemPool : SceneJson(it) = e
    THEN CHOOSE it \in ItemPool : SceneJson(it) = e
    ELSE UndefinedItem

\* scenesData[0 .. scenesData.length - 1]; `length` is undefined on values
\* that are neither arrays nor strings, and the loop then has no iteration.
Scenes(v) ==
    IF v.t = "arr" THEN [k \in 1..Len(v.a) |-> SceneItem(v.a[k])]
    ELSE IF v.t = "str" THEN [k \in 1..Len(v.s) |-> UndefinedItem]
    ELSE <<>>

\* !scenesData
Falsy(v) ==
    v \in { NullValue, StrValue(<<>>), Val("lit", <<"false">>, <<>>, <<>>),
            Val("num", <<"0">>, <<>>, <<>>) }

UnusableOnlyFalsy(v) == Falsy(v)

\* !scenesData || scenesData.length === 0
Unusable(v) == Falsy(v) \/ (v.t \in {"arr", "str"} /\ Len(Scenes(v)) = 0)

\* The script request rejects: the outer catch.
VideoScriptRejected ==
    /\ ppc = "await_script"
    /\ origin' = RejectedOrigin
    /\ events' = Append(events, Ev("progress.error", 1, 0))
    /\ ret' = NoDocument
    /\ ppc' = "done"
    /\ UNCHANGED <<uiVars, caller, ai, items, out, idx, inFlight, retryVars, content, text, parsed>>

\* if (!scenesData || scenesData.length === 0)
VideoScriptUnusable ==
    /\ ppc = "await_script"
    /\ \E o \in ScriptOrigins :
         /\ origin' = o
         /\ text' = Render(o)
         /\ parsed' = ParseJsonFromText(Render(o))
    /\ Unusable(parsed')
    /\ events' = Append(events, Ev("progress.error", 0, 0))
    /\ ret' = NoDocument
    /\ ppc' = "done"
    /\ UNCHANGED <<uiVars, caller, ai, items, out, idx, inFlight, retryVars, content>>

\* The script parsed to something the guard lets through: the loop starts.
VideoScriptParsed ==
    /\ ppc = "await_script"
    /\ \E o \in ScriptOrigins :
         /\ origin' = o
         /\ text' = Render(o)
         /\ parsed' = ParseJsonFromText(Render(o))
    /\ ~Unusable(parsed')
    /\ items' = Scenes(parsed')
    /\ out' = <<>>
    /\ idx' = 0
    /\ UNCHANGED <<uiVars, caller, ai, content>>
    /\ LoopTop(events, 0)

\* await sleep(1000) between two items is over.
DelayDone ==
    /\ ppc = "await_delay"
    /\ UNCHANGED <<uiVars, caller, ai, items, out, idx, textVars>>
    /\ ItemBody(Append(events, Ev("delayDone", InterItemDelayMs, idx)), idx)

\* typeof sceneData.script === 'string'
HasScript(item) == item.text # "undefined"

\* console.warn / console.error of the scene loop evaluate
\* sceneData.script.substring(0, 30) on every path but the one that got image
\* bytes; on a scene without a script that is a TypeError, thrown from the else
\* branch into the inner catch and from the inner catch out of the loop.
LogThrows(o, item) ==
    /\ caller = "video"
    /\ ~HasScript(item)
    /\ ~(o.kind = "ok" /\ o.v = "imageBytes")

\* The continuation after `await withRetry(...)`: the item is pushed with its
\* image or its fallback, and the loop goes on to the next item; or the log
\* line throws and the outer catch of generateVideoAssets returns null.
ItemContinuation(settled) ==
    /\ ppc = "await_retry"
    /\ settled
    /\ UNCHANGED <<uiVars, caller, ai, items, textVars>>
    /\ IF LogThrows(outcome, items[idx + 1])
       THEN /\ out' = out
            /\ idx' = idx
            /\ events' = Append(events, Ev("progress.error", 1, 0))
            /\ ret' = NoDocument
            /\ ppc' = "done"
            /\ rpc' = "idle"
            /\ inFlight' = inFlight
            /\ UNCHANGED <<maxAttempts, initialDelay, hasOnRetry, attempt, delay,
                           calls, fnLog, sleeps, outcome>>
       ELSE /\ out' = Append(out, WithImageUrl(items[idx + 1],
                                               ImageUrlFor(outcome, items[idx + 1], idx)))
            /\ idx' = idx + 1
            /\ LoopTop(Append(events, Ev("push", idx, IF out'[idx + 1].imageUrl.kind = "data" THEN 1 ELSE 0))
                         \o (IF caller = "presentation"
                             THEN <<Ev("progress.item", idx + 1, Len(items))>>
                             ELSE <<>>),
                       idx + 1)

ItemResolvedNotAwaited == ItemContinuation(rpc \in {"await_fn", "resolved", "rejected"})

\* The continuation runs once withRetry has settled.
ItemResolved == ItemContinuation(rpc \in {"resolved", "rejected"})

InitPipe ==
    /\ caller = "none"
    /\ RetryIdle
    /\ ai \in BOOLEAN
    /\ items = <<>> /\ out = <<>> /\ idx = 0
    /\ ppc = "idle" /\ ret = [kind |-> "none", slides |-> <<>>]
    /\ TextIdle
    /\ inFlight = 0
    /\ events = <<>>
    /\ UiIdle

NextPipe ==
    \/ PresentationNoClient
    \/ PresentationStart
    \/ VideoNoClient
    \/ VideoStart
    \/ VideoScriptRejected
    \/ VideoScriptUnusable
    \/ VideoScriptParsed
    \/ DelayDone
    \/ ItemResolved
    \/ FnResolves
    \/ FnRejectsRetried
    \/ FnRejectsThrown
    \/ SleepDone

SpecPipe == InitPipe /\ [][NextPipe]_vars

----------------------------------------------------------------------------
(* Content operations: suggestMetadata, generateSummary, generateExplanation,*)
(* generateNotes, generateQuizQuestions, generateFeedbackOnQuiz,             *)
(* generatePresentationContent, generateBlockDiagram, startOrGetChat.        *)
(* `content` is the length of the text the operation is given.               *)

MIN_CONTENT_LENGTH_FOR_GENERATION == 20
MAX_CONTENT_LENGTH_FOR_GENERATION == 8000
TitlePrefixLength == 30
MetadataContentLength == 500
FeedbackContentLength == 1000
SlidesMaxAttempts == 4
DefaultInitialDelay == 1000

\* content.substring(0, k).length
SubstringWhole(n, k) == n

Substring(n, k) == IF n < k THEN n ELSE k

\* What an operation hands back: a settled promise (or, for the synchronous
\* startOrGetChat, a return or a throw) and the value or error in it.
OpResult(kind, type, s, j) == [kind |-> kind, type |-> type, s |-> s, j |-> j]
ResolvedString(s) == OpResult("resolved", "string", s, NotParsed)
\* return response.text
ResolvedText == ResolvedString("response.text")
ResolvedValue(j) == OpResult("resolved", "value", "", j)
\* return { text: ... }
ResolvedFeedback(s) == OpResult("resolved", "feedback", s, NotParsed)
ReturnedChat == OpResult("returned", "chat", "", NotParsed)
RejectedWith(s) == OpResult("rejected", "error", s, NotParsed)
ThrownError(s) == OpResult("thrown", "error", s, NotParsed)

ApiKeyErrorSwallowed == ResolvedValue(NullValue)

\* new Error("API Key not configured.")
ApiKeyError == RejectedWith("API Key not configured.")

\* The fallback object of suggestMetadata.
FallbackMetadata(n) ==
    ObjValue(<<Member("title", StrValue(<<"Content Analysis: ", "content.substring",
                                          ToString(Substring(n, TitlePrefixLength)), "...">>)),
               Member("subject", StrValue(<<"General">>)),
               Member("topic", StrValue(<<"Automated Analysis">>)),
               Member("difficulty", StrValue(<<"Medium">>))>>)

\* Texts the model answers with, per operation.
Metadata(keys, difficulty) ==
    ObjValue([k \in 1..Len(keys) |->
                Member(keys[k], StrValue(<<IF keys[k] = "difficulty" THEN difficulty
                                           ELSE "a">>))])
MetadataValues ==
    { Metadata(<<"title", "subject", "topic", "difficulty">>, d) :
        d \in {"Easy", "Medium", "Hard", "Extreme"} }
        \cup { Metadata(<<"subject", "topic", "difficulty">>, "Easy"),
               ObjValue(<<>>), ArrValue(<<>>), NullValue,
               Val("num", <<"0">>, <<>>, <<>>), Val("num", <<"1">>, <<>>, <<>>) }
Question == ObjValue(<<Member("question", StrValue(<<"a">>)),
                       Member("correctAnswer", StrValue(<<"b">>))>>)
QuizValues ==
    { ArrValue(<<>>), ArrValue(<<Question>>), ArrValue(<<Question, Question>>),
      ObjValue(<<>>), NullValue }
SlideDeck == ObjValue(<<Member("title", StrValue(<<"a">>)),
                        Member("slides", ArrValue(<<SceneJson(CHOOSE it \in ItemPool : TRUE)>>))>>)
SlideValues == { SlideDeck, ObjValue(<<>>), NullValue }
JsonOrigins(values) ==
    { Origin("value", v, NullValue, <<>>, wrap) :
        v \in values, wrap \in {"none", "jsonFence"} }
        \cup { Origin("raw", NullValue, NullValue, body, "none") :
                 body \in { <<>>, <<"{">> } }
TextOrigins ==
    { Origin("raw", NullValue, NullValue, body, "none") : body \in { <<>>, <<"a">> } }
DiagramOrigins ==
    { Origin("diagram", NullValue, NullValue, body, wrap) :
        body \in { GraphTD \o <<"\n", "a", "-", "-", ">", "b">>, GraphTB },
        wrap \in {"none", "mermaidFence"} }

\* The lengths of content an operation is entered with: the short ones, and
\* the ones on either side of each length at which a prompt cuts its content.
ContentLengths ==
    (0..MaxContentLen) \cup
    { k + d : k \in { MetadataContentLength, FeedbackContentLength,
                      MAX_CONTENT_LENGTH_FOR_GENERATION },
              d \in -1..1 }

\* The operation is entered with some content.
Enter(op) ==
    /\ caller = "none" /\ ppc = "idle"
    /\ caller' = op
    /\ UNCHANGED uiVars
    /\ \E n \in ContentLengths : content' = n
    /\ UNCHANGED <<ai, items, out, idx, inFlight, retryVars, text, parsed, origin>>

\* return / throw before any await.
Leave(result) ==
    /\ ppc' = "done"
    /\ ret' = result
    /\ events' = events

\* await ai.models.generateContent(...) with n characters of content in the prompt.
CallModel(n) ==
    /\ ppc' = "await_model"
    /\ ret' = ret
    /\ events' = Append(events, Ev("model", n, 0))

\* The continuation after the await: the request resolved with the text of
\* origin o or rejected; p is what the normalizer made of the text.
Settle(op, o, p, result) ==
    /\ caller = op /\ ppc = "await_model"
    /\ origin' = o
    /\ text' = Render(o)
    /\ parsed' = p
    /\ ppc' = "done"
    /\ ret' = result
    /\ events' = Append(events, Ev(IF o.kind = "rejected" THEN "model.rejected"
                                   ELSE "model.resolved", 0, 0))
    /\ UNCHANGED <<uiVars, caller, ai, items, out, idx, inFlight, retryVars, content>>

\* metadata || fallback
OrFallback(v, n) == IF Falsy(v) THEN FallbackMetadata(n) ELSE v

\* suggestMetadata up to its await.
SuggestMetadata ==
    /\ Enter("suggestMetadata")
    /\ IF ~ai THEN Leave(ResolvedValue(FallbackMetadata(content')))
       ELSE CallModel(Substring(content', MetadataContentLength))

\* suggestMetadata after its await, the catch included.
MetadataSettled ==
    \E o \in JsonOrigins(MetadataValues) \cup {RejectedOrigin} :
        IF o.kind = "rejected"
        THEN Settle("suggestMetadata", o, parsed, ResolvedValue(FallbackMetadata(content)))
        ELSE Settle("suggestMetadata", o, ParseJsonFromText(Render(o)),
                    ResolvedValue(OrFallback(ParseJsonFromText(Render(o)), content)))

TooShortInclusive(n) == n <= MIN_CONTENT_LENGTH_FOR_GENERATION

\* content.length < MIN_CONTENT_LENGTH_FOR_GENERATION
TooShort(n) == n < MIN_CONTENT_LENGTH_FOR_GENERATION

\* generateSummary / generateExplanation up to the await.
GuardedStart(op, noKey, tooShort) ==
    /\ Enter(op)
    /\ IF ~ai THEN Leave(ResolvedString(noKey))
       ELSE IF TooShort(content') THEN Leave(ResolvedString(tooShort))
       ELSE CallModel(Substring(content', MAX_CONTENT_LENGTH_FOR_GENERATION))

\* ... and after it: return response.text, or the catch's message.
GuardedSettled(op, failed) ==
    \E o \in TextOrigins \cup {RejectedOrigin} :
        Settle(op, o, parsed,
               IF o.kind = "rejected" THEN ResolvedString(failed) ELSE ResolvedText)

GenerateSummary ==
    GuardedStart("generateSummary", "API Key not configured. Summary unavailable.",
                 "Content is too short to generate a meaningful summary.")
SummarySettled ==
    GuardedSettled("generateSummary", "Failed to generate summary. Please try again.")

GenerateExplanation ==
    GuardedStart("generateExplanation", "API Key not configured. Explanation unavailable.",
                 "Content is too short to generate a meaningful explanation.")
ExplanationSettled ==
    GuardedSettled("generateExplanation", "Failed to generate explanation. Please try again.")

\* generateNotes: throws without a client, no try around the await.
GenerateNotes ==
    /\ Enter("generateNotes")
    /\ IF ~ai THEN Leave(ApiKeyError)
       ELSE CallModel(Substring(content', MAX_CONTENT_LENGTH_FOR_GENERATION))
NotesSettled ==
    \E o \in TextOrigins \cup {RejectedOrigin} :
        Settle("generateNotes", o, parsed,
               IF o.kind = "rejected" THEN RejectedWith("model error") ELSE ResolvedText)

\* questions || []
OrEmptyArray(v) == IF Falsy(v) THEN ArrValue(<<>>) ELSE v

\* generateQuizQuestions: throws without a client, no try around the await.
GenerateQuizQuestions ==
    /\ Enter("generateQuizQuestions")
    /\ IF ~ai THEN Leave(ApiKeyError)
       ELSE CallModel(Substring(content', MAX_CONTENT_LENGTH_FOR_GENERATION))
QuizSettled ==
    \E o \in JsonOrigins(QuizValues) \cup {RejectedOrigin} :
        IF o.kind = "rejected"
        THEN Settle("generateQuizQuestions", o, parsed, RejectedWith("model error"))
        ELSE Settle("generateQuizQuestions", o, ParseJsonFromText(Render(o)),
                    ResolvedValue(OrEmptyArray(ParseJsonFromText(Render(o)))))

\* generateFeedbackOnQuiz when its request rejects: nothing catches it.
FeedbackFailure == RejectedWith("model error")

\* generateFeedbackOnQuiz: a placeholder without a client, no try around the await.
GenerateFeedbackOnQuiz ==
    /\ Enter("generateFeedbackOnQuiz")
    /\ IF ~ai
       THEN Leave(ResolvedFeedback("AI feedback is unavailable as the API key is not configured."))
       ELSE CallModel(Substring(content', FeedbackContentLength))
FeedbackSettled ==
    \E o \in TextOrigins \cup {RejectedOrigin} :
        Settle("generateFeedbackOnQuiz", o, parsed,
               IF o.kind = "rejected" THEN FeedbackFailure
               ELSE ResolvedFeedback("response.text"))

\* generateBlockDiagram: null without a client, no try around the await.
GenerateBlockDiagram ==
    /\ Enter("generateBlockDiagram")
    /\ IF ~ai THEN Leave(ResolvedValue(NullValue))
       ELSE CallModel(content')
DiagramSettled ==
    \E o \in DiagramOrigins \cup TextOrigins \cup {RejectedOrigin} :
        IF o.kind = "rejected"
        THEN Settle("generateBlockDiagram", o, parsed, RejectedWith("model error"))
        ELSE Settle("generateBlockDiagram", o, ParseMermaidFromText(Render(o)),
                    ResolvedValue(ParseMermaidFromText(Render(o))))

\* startOrGetChat: synchronous; ai.chats.create sends nothing.
StartOrGetChat ==
    /\ Enter("startOrGetChat")
    /\ Leave(IF ~ai THEN ThrownError("API Key not configured.") ELSE ReturnedChat)

\* generatePresentationContent up to `await withRetry(..., 4)`.
GeneratePresentationContent ==
    /\ caller = "none" /\ ppc = "idle"
    /\ caller' = "generatePresentationContent"
    /\ UNCHANGED uiVars
    /\ \E n \in ContentLengths : content' = n
    /\ UNCHANGED <<ai, items, out, idx, text, parsed, origin>>
    /\ IF ~ai
       THEN /\ Leave(ApiKeyError)
            /\ UNCHANGED <<inFlight, retryVars>>
       ELSE /\ ppc' = "await_retry"
            /\ ret' = ret
            \* const prompt = `... Explanation: ${explanation}`: the whole
            \* explanation, content' characters, is in the prompt every
            \* attempt sends.
            /\ WithRetryStart(Append(events, Ev("prompt", content', 0)),
                              SlidesMaxAttempts, DefaultInitialDelay, FALSE)

SlidesFailurePropagated == RejectedWith("model error")

\* catch (error) { ...; return null; }
SlidesFailure == ResolvedValue(NullValue)

\* generatePresentationContent once withRetry has settled.
SlidesSettled ==
    /\ caller = "generatePresentationContent" /\ ppc = "await_retry"
    /\ rpc \in {"resolved", "rejected"}
    /\ ppc' = "done"
    /\ IF outcome.kind = "ok"
       THEN \E o \in JsonOrigins(SlideValues) :
              /\ origin' = o
              /\ text' = Render(o)
              /\ parsed' = ParseJsonFromText(Render(o))
              /\ ret' = ResolvedValue(parsed')
       ELSE /\ ret' = SlidesFailure
            /\ UNCHANGED <<origin, text, parsed>>
    /\ UNCHANGED <<uiVars, caller, ai, items, out, idx, inFlight, retryVars, events, content>>

InitOps ==
    /\ caller = "none"
    /\ RetryIdle
    /\ ai \in BOOLEAN
    /\ items = <<>> /\ out = <<>> /\ idx = 0
    /\ ppc = "idle" /\ ret = [kind |-> "none", slides |-> <<>>]
    /\ TextIdle
    /\ inFlight = 0
    /\ events = <<>>
    /\ UiIdle

NextOps ==
    \/ SuggestMetadata
    \/ MetadataSettled
    \/ GenerateSummary
    \/ SummarySettled
    \/ GenerateExplanation
    \/ ExplanationSettled
    \/ GenerateNotes
    \/ NotesSettled
    \/ GenerateQuizQuestions
    \/ QuizSettled
    \/ GenerateFeedbackOnQuiz
    \/ FeedbackSettled
    \/ GeneratePresentationContent
    \/ SlidesSettled
    \/ GenerateBlockDiagram
    \/ DiagramSettled
    \/ StartOrGetChat
    \/ PresentationNoClient
    \/ VideoNoClient
    \/ FnResolves
    \/ FnRejectsRetried
    \/ FnRejectsThrown
    \/ SleepDone

SpecOps == InitOps /\ [][NextOps]_vars

----------------------------------------------------------------------------
(* The normalizer applied on its own *)

InitNorm ==
    /\ caller = "none"
    /\ RetryIdle
    /\ PipeIdle
    /\ inFlight = 0
    /\ events = <<>>
    /\ UiIdle
    /\ content = 0
    /\ origin \in Origins
    /\ text = Render(origin)
    /\ parsed = NotParsed

\* parseJsonFromText(text) is called.
NormalizeJson ==
    /\ caller = "none"
    /\ caller' = "parseJsonFromText"
    /\ UNCHANGED uiVars
    /\ parsed' = ParseJsonFromText(text)
    /\ UNCHANGED <<retryVars, inFlight, events, pipeVars, content, text, origin>>

\* parseMermaidFromText(text) is called.
NormalizeMermaid ==
    /\ caller = "none"
    /\ caller' = "parseMermaidFromText"
    /\ UNCHANGED uiVars
    /\ parsed' = ParseMermaidFromText(text)
    /\ UNCHANGED <<retryVars, inFlight, events, pipeVars, content, text, origin>>

NextNorm ==
    \/ NormalizeJson
    \/ NormalizeMermaid

SpecNorm == InitNorm /\ [][NextNorm]_vars

\* Timers fire, and the promise fn returned settles.
FairSpecRetry ==
    /\ SpecRetry
    /\ WF_vars(SleepDone)
    /\ WF_vars(FnResolves \/ FnRejectsRetried \/ FnRejectsThrown)

----------------------------------------------------------------------------
(* Quiz page (QuizPage)                                                    *)
(*                                                                         *)
(* The useState cells hold the latest state, i.e. with every queued        *)
(* update applied.  `seen` is the state the last committed render read:    *)
(* what the user sees and what the closures of that render                 *)
(* (handleSubmitQuiz, the button handlers, the timer effect) captured.     *)
(* A render after a timer, a promise continuation or an effect is a step   *)
(* of its own, and so is the run of its passive effect; a render after a   *)
(* click is part of the click's step.  Pending effects are flushed before  *)
(* every render.  Of the quiz results handed to addQuizResult the page     *)
(* keeps in `allQuizzes` those recorded since the current set of questions *)
(* was loaded.                                                             *)

\* The countdown is modelled over MaxSeconds seconds.
MaxSeconds == 2
\* Number of times questions are loaded on one visit of the page.
MaxLoads == 2

\* constants.ts: export const DEFAULT_QUIZ_DURATION_SECONDS = 5 * 60, scaled
\* to the modelled countdown.
DEFAULT_QUIZ_DURATION_SECONDS == MaxSeconds

QuestionIds == {"q1", "q2"}
\* What generateQuizQuestions resolves with: the ids of the questions.
QuestionLists == { <<>>, <<"q1">>, <<"q1", "q2">> }
\* An answer as it compares with q.correctAnswer after trim and lower-casing.
Answers == {"right", "wrong"}

NoAnswers == [id \in {} |-> "right"]
NoError == "null"
NoFeedback == "null"
FeedbackPlaceholder == "Could not generate AI feedback."

\* { ...q, id: q.id || ... }
FreshQuestion(id) == [id |-> id, userAnswer |-> "undefined", isCorrect |-> "undefined"]

\* The state a render reads.
Snapshot(q) ==
    [quizState |-> q.quizState, questions |-> q.questions,
     currentQuestionIndex |-> q.currentQuestionIndex,
     userAnswers |-> q.userAnswers, timeLeft |-> q.timeLeft]

\* The dependencies of the timer effect: [timeLeft, quizState, handleSubmitQuiz],
\* handleSubmitQuiz being rebuilt on [questions, userAnswers, timeLeft, quizState].
TimerDeps(s) == <<s.timeLeft, s.quizState, s.questions, s.userAnswers>>

\* const [...] = useState(...): the page as constructed, before its effects.
QuizMounted(key, material) ==
    [mounted |-> TRUE, apiKey |-> key, material |-> material,
     questions |-> <<>>, currentQuestionIndex |-> 0,
     userAnswers |-> NoAnswers, timeLeft |-> DEFAULT_QUIZ_DURATION_SECONDS,
     quizState |-> "loading", score |-> 0, feedback |-> NoFeedback,
     error |-> NoError,
     seen |-> [quizState |-> "loading", questions |-> <<>>,
               currentQuestionIndex |-> 0, userAnswers |-> NoAnswers,
               timeLeft |-> DEFAULT_QUIZ_DURATION_SECONDS],
     started |-> FALSE, effect |-> TRUE, timerRef |-> FALSE,
     loading |-> 0, feedbacks |-> 0, loads |-> 0,
     allQuizzes |-> <<>>, last |-> "mounted"]

\* loadQuestions()
LoadQuestions(q) ==
    IF ~q.material
    THEN [q EXCEPT !.error = "Content not found or empty. Cannot generate quiz.",
                   !.quizState = "results", !.last = "missingContent"]
    ELSE [q EXCEPT !.quizState = "loading", !.error = NoError,
                   !.loading = q.loading + 1, !.loads = q.loads + 1,
                   !.last = "loadStarted"]

\* userAnswers[q.id] of the closure, graded.
Graded(s, k) ==
    LET id == s.questions[k].id
    IN  IF id \in DOMAIN s.userAnswers
        THEN [id |-> id, userAnswer |-> s.userAnswers[id],
              isCorrect |-> IF s.userAnswers[id] = "right" THEN "true" ELSE "false"]
        ELSE [id |-> id, userAnswer |-> "undefined", isCorrect |-> "false"]

\* if (quizState === 'submitting' || quizState === 'results') return;
AlreadySubmitted(q) == q.seen.quizState \in {"submitting", "results"}

\* handleSubmitQuiz() of the last render, up to its await.
HandleSubmitQuiz(q) ==
    IF AlreadySubmitted(q) THEN q
    ELSE LET s == q.seen
             answeredQuestions == [k \in 1..Len(s.questions) |-> Graded(s, k)]
             calculatedScore ==
                 Cardinality({ k \in 1..Len(s.questions) :
                                   answeredQuestions[k].isCorrect = "true" })
         IN  [q EXCEPT !.quizState = "submitting",
                       !.timerRef = FALSE,
                       !.questions = answeredQuestions,
                       !.score = calculatedScore,
                       !.allQuizzes = Append(q.allQuizzes,
                           [durationSeconds |-> DEFAULT_QUIZ_DURATION_SECONDS - s.timeLeft]),
                       !.feedbacks = q.feedbacks + 1,
                       !.last = "submitted"]

\* The timer effect of the last render, after the cleanup of the one before.
TimerEffect(q) ==
    LET c == [q EXCEPT !.effect = FALSE, !.timerRef = FALSE]
    IN  IF q.seen.quizState = "taking" /\ q.seen.timeLeft > 0
        THEN [c EXCEPT !.timerRef = TRUE]
        ELSE IF q.seen.timeLeft = 0 /\ q.seen.quizState = "taking"
             THEN HandleSubmitQuiz(c)
             ELSE c

\* The first run of the effect on [loadQuestions].
LoadEffect(q) ==
    IF q.started THEN q
    ELSE IF ~q.apiKey
         THEN [q EXCEPT !.started = TRUE, !.error = "API Key not configured.",
                        !.quizState = "results", !.last = "missingKey"]
         ELSE LoadQuestions([q EXCEPT !.started = TRUE])

\* The passive effects of the last render, in the order of their declaration.
FlushEffects(q) == IF q.effect THEN TimerEffect(LoadEffect(q)) ELSE q

\* A render and its commit.
Commit(q) ==
    [q EXCEPT !.seen = Snapshot(q),
              !.effect = TimerDeps(Snapshot(q)) # TimerDeps(q.seen)]

\* The synchronous re-render that ends a click or an input event, with its
\* effects and the re-render of what they set.
AfterEvent(q) ==
    LET a == FlushEffects(Commit(FlushEffects(q)))
    IN  IF Snapshot(a) # a.seen THEN FlushEffects(Commit(a)) ELSE a

\* The render the user looks at shows the question view.
CurrentQ(s) ==
    s.currentQuestionIndex >= 0 /\ s.currentQuestionIndex < Len(s.questions)
QuestionView(s) ==
    \/ s.quizState = "submitting"
    \/ s.quizState = "taking" /\ CurrentQ(s)

PutAnswer(ua, id, a) ==
    [i \in DOMAIN ua \cup {id} |-> IF i = id THEN a ELSE ua[i]]
Min(a, b) == IF a < b THEN a ELSE b
Max(a, b) == IF a > b THEN a ELSE b

\* What every step of the quiz page leaves alone.
QuizFrame == UNCHANGED <<serviceVars, homePage, diagram, themeButton>>

\* The passive effects of the last render run (mount included).
QuizEffects ==
    /\ quizPage.mounted /\ quizPage.effect
    /\ quizPage' = FlushEffects(quizPage)
    /\ QuizFrame

\* React renders the queued updates.
QuizRender ==
    /\ quizPage.mounted
    /\ Snapshot(quizPage) # quizPage.seen
    /\ quizPage' = Commit(FlushEffects(quizPage))
    /\ QuizFrame

\* generateQuizQuestions resolves: the continuation of loadQuestions.
QuestionsResolved ==
    /\ quizPage.mounted /\ quizPage.loading > 0
    /\ \E generatedQuestions \in QuestionLists :
         quizPage' =
            IF Len(generatedQuestions) = 0
            THEN [quizPage EXCEPT
                    !.loading = quizPage.loading - 1,
                    !.error = "Could not generate quiz. Content might be too short or AI service unavailable.",
                    !.quizState = "results", !.last = "emptyList"]
            ELSE [quizPage EXCEPT
                    !.loading = quizPage.loading - 1,
                    !.questions = [k \in 1..Len(generatedQuestions) |->
                                      FreshQuestion(generatedQuestions[k])],
                    !.quizState = "taking",
                    !.timeLeft = DEFAULT_QUIZ_DURATION_SECONDS,
                    !.allQuizzes = <<>>,
                    !.last = "loaded"]
    /\ QuizFrame

\* generateQuizQuestions rejects: the catch of loadQuestions.
QuestionsRejected ==
    /\ quizPage.mounted /\ quizPage.loading > 0
    /\ quizPage' = [quizPage EXCEPT
                      !.loading = quizPage.loading - 1,
                      !.error = "Failed to load quiz. Check connection or API key.",
                      !.quizState = "results", !.last = "loadRejected"]
    /\ QuizFrame

TimerFiresByTwo ==
    /\ quizPage.mounted /\ quizPage.timerRef /\ ~quizPage.effect
    /\ quizPage' = [quizPage EXCEPT !.timeLeft = quizPage.timeLeft - 2,
                                    !.timerRef = FALSE]
    /\ QuizFrame

\* The timeout of the timer effect fires: setTimeLeft(prevTime => prevTime - 1).
\* Its delay of 1000 ms ends after the passive effects of the render on
\* screen, which React flushes right after the commit.
TimerFires ==
    /\ quizPage.mounted /\ quizPage.timerRef /\ ~quizPage.effect
    /\ quizPage' = [quizPage EXCEPT !.timeLeft = quizPage.timeLeft - 1,
                                    !.timerRef = FALSE]
    /\ QuizFrame

\* onChange of the current question's input: handleAnswerChange.
AnswerChange ==
    /\ quizPage.mounted /\ QuestionView(quizPage.seen) /\ CurrentQ(quizPage.seen)
    /\ \E a \in Answers :
         LET id == quizPage.seen.questions[quizPage.seen.currentQuestionIndex + 1].id
         IN  quizPage' = AfterEvent([quizPage EXCEPT
                            !.userAnswers = PutAnswer(quizPage.userAnswers, id, a)])
    /\ QuizFrame

\* Previous: setCurrentQuestionIndex(prev => Math.max(0, prev - 1)).
PreviousClick ==
    /\ quizPage.mounted /\ QuestionView(quizPage.seen)
    /\ quizPage.seen.currentQuestionIndex # 0
    /\ quizPage' = AfterEvent([quizPage EXCEPT
                      !.currentQuestionIndex = Max(0, quizPage.currentQuestionIndex - 1)])
    /\ QuizFrame

\* Next: setCurrentQuestionIndex(prev => Math.min(questions.length - 1, prev + 1)).
NextClick ==
    /\ quizPage.mounted /\ QuestionView(quizPage.seen)
    /\ quizPage.seen.currentQuestionIndex < Len(quizPage.seen.questions) - 1
    /\ quizPage' = AfterEvent([quizPage EXCEPT
                      !.currentQuestionIndex =
                          Min(Len(quizPage.seen.questions) - 1,
                              quizPage.currentQuestionIndex + 1)])
    /\ QuizFrame

\* Submit Quiz, shown in place of Next on the last question.
SubmitClick ==
    /\ quizPage.mounted /\ QuestionView(quizPage.seen)
    /\ ~(quizPage.seen.currentQuestionIndex < Len(quizPage.seen.questions) - 1)
    /\ quizPage' = AfterEvent(HandleSubmitQuiz(quizPage))
    /\ QuizFrame

\* Try Again on the results view: onClick={loadQuestions}.
TryAgainClick ==
    /\ quizPage.mounted /\ quizPage.seen.quizState = "results"
    /\ quizPage.loads < MaxLoads
    /\ quizPage' = AfterEvent(LoadQuestions(quizPage))
    /\ QuizFrame

\* generateFeedbackOnQuiz resolves: setFeedback(generatedFeedback); setQuizState('results').
FeedbackResolved ==
    /\ quizPage.mounted /\ quizPage.feedbacks > 0
    /\ quizPage' = [quizPage EXCEPT !.feedbacks = quizPage.feedbacks - 1,
                                    !.feedback = "generated",
                                    !.quizState = "results",
                                    !.last = "feedbackResolved"]
    /\ QuizFrame

FeedbackRejectedUncaught ==
    /\ quizPage.mounted /\ quizPage.feedbacks > 0
    /\ quizPage' = [quizPage EXCEPT !.feedbacks = quizPage.feedbacks - 1,
                                    !.last = "feedbackRejected"]
    /\ QuizFrame

\* generateFeedbackOnQuiz rejects: the catch, then setQuizState('results').
FeedbackRejected ==
    /\ quizPage.mounted /\ quizPage.feedbacks > 0
    /\ quizPage' = [quizPage EXCEPT !.feedbacks = quizPage.feedbacks - 1,
                                    !.feedback = FeedbackPlaceholder,
                                    !.quizState = "results",
                                    !.last = "feedbackRejected"]
    /\ QuizFrame

----------------------------------------------------------------------------
(* Home page (HomePage): handleSubmit                                      *)

ContentTypes == {"text", "youtube", "file"}
ProcessingError ==
    "Failed to process content. Please ensure your API key is configured and try again."

\* The page as constructed.
HomeMounted ==
    [mounted |-> TRUE, isLoading |-> FALSE, error |-> NoError, pc |-> "idle",
     contentType |-> "text", titled |-> FALSE, extractedText |-> "",
     studyMaterials |-> 0, navigated |-> FALSE, last |-> "mounted"]

\* isSubmitDisabled(), isSuggestingMeta aside.
IsSubmitDisabled(h, provided) == h.isLoading \/ ~provided

\* After generateExplanation: title || (extractedText ? (await suggestMetadata(...)).title
\* : 'Untitled'), then addContent, navigate and the finally block.
AfterExplanation(h) ==
    IF ~h.titled /\ h.extractedText = "text"
    THEN [h EXCEPT !.pc = "suggestMetadata"]
    ELSE [h EXCEPT !.pc = "idle", !.studyMaterials = h.studyMaterials + 1,
                   !.navigated = TRUE, !.isLoading = FALSE, !.last = "added"]

HomeFrame == UNCHANGED <<serviceVars, quizPage, diagram, themeButton>>

\* The form is submitted: handleSubmit up to its first await.
HomeSubmit ==
    /\ homePage.mounted /\ ~homePage.navigated /\ homePage.pc = "idle"
    /\ \E type \in ContentTypes, provided \in BOOLEAN, titled \in BOOLEAN :
         /\ ~IsSubmitDisabled(homePage, provided)
         /\ LET h == [homePage EXCEPT !.isLoading = TRUE, !.error = NoError,
                                      !.contentType = type, !.titled = titled,
                                      !.extractedText = "text", !.last = "submit"]
            IN  homePage' =
                  IF ~provided
                  THEN [h EXCEPT !.error = "Please provide the required content.",
                                 !.isLoading = FALSE, !.last = "invalid"]
                  ELSE IF type = "youtube"
                       THEN [h EXCEPT !.pc = "fetchYouTubeTranscript"]
                       ELSE IF type = "file"
                            THEN [h EXCEPT !.pc = "processFileUploadSimulation"]
                            ELSE [h EXCEPT !.pc = "generateExplanation"]
    /\ HomeFrame

\* The awaited step resolves and handleSubmit runs on to its next await or
\* to its end.  response.text of the transcript may be empty or undefined.
HomeStepResolved ==
    /\ homePage.mounted /\ homePage.pc # "idle"
    /\ \/ /\ homePage.pc = "fetchYouTubeTranscript"
          /\ \E t \in {"text", "", "undefined"} :
               homePage' = [homePage EXCEPT !.pc = "generateExplanation",
                                            !.extractedText = t]
       \/ /\ homePage.pc = "processFileUploadSimulation"
          /\ homePage' = [homePage EXCEPT !.pc = "generateExplanation",
                                          !.extractedText = "text"]
       \/ /\ homePage.pc = "generateExplanation"
          /\ homePage.extractedText # "undefined"
          /\ homePage' = AfterExplanation(homePage)
       \/ /\ homePage.pc = "suggestMetadata"
          /\ homePage' = [homePage EXCEPT !.pc = "idle",
                              !.studyMaterials = homePage.studyMaterials + 1,
                              !.navigated = TRUE, !.isLoading = FALSE,
                              !.last = "added"]
    /\ HomeFrame

\* The awaited step rejects: catch, then finally.  The transcript request
\* rejects when the model call does; generateExplanation rejects on
\* content.length of an undefined transcript.
HomeStepRejected ==
    /\ homePage.mounted
    /\ \/ homePage.pc = "fetchYouTubeTranscript"
       \/ homePage.pc = "generateExplanation" /\ homePage.extractedText = "undefined"
    /\ homePage' = [homePage EXCEPT !.pc = "idle", !.error = ProcessingError,
                                    !.isLoading = FALSE, !.last = "rejected"]
    /\ HomeFrame

InitPages ==
    /\ caller = "none"
    /\ RetryIdle
    /\ PipeIdle
    /\ TextIdle
    /\ inFlight = 0
    /\ events = <<>>
    \* The router shows one page at a time.
    /\ \/ /\ \E key \in BOOLEAN, material \in BOOLEAN :
                 quizPage = QuizMounted(key, material)
          /\ homePage = NotMounted
       \/ /\ quizPage = NotMounted
          /\ homePage = HomeMounted
    /\ diagram = NotMounted
    /\ themeButton = NotMounted

NextPages ==
    \/ QuizEffects
    \/ QuizRender
    \/ QuestionsResolved
    \/ QuestionsRejected
    \/ TimerFires
    \/ AnswerChange
    \/ PreviousClick
    \/ NextClick
    \/ SubmitClick
    \/ TryAgainClick
    \/ FeedbackResolved
    \/ FeedbackRejected
    \/ HomeSubmit
    \/ HomeStepResolved
    \/ HomeStepRejected

SpecPages == InitPages /\ [][NextPages]_vars

\* React runs the renders and effects it has scheduled, a timeout that is
\* not cleared fires, and every request of the pages settles.
FairSpecPages ==
    /\ SpecPages
    /\ WF_vars(QuizRender)
    /\ WF_vars(QuizEffects)
    /\ WF_vars(TimerFires)
    /\ WF_vars(QuestionsResolved \/ QuestionsRejected)
    /\ WF_vars(FeedbackResolved \/ FeedbackRejected)
    /\ WF_vars(HomeStepResolved \/ HomeStepRejected)


----------------------------------------------------------------------------
(* MermaidDiagram and ThemeToggleButton *)

\* renderDiagram runs started by one mounted diagram.
MaxRenders == 3

\* The chart prop: empty, or one of two texts.
Charts == {"", "chartA", "chartB"}
NoChart == "none"
NoSvg == "null"

\* The component as constructed for a chart: useState(null), useState(null),
\* useState(true), its effect not yet run.  calls is mermaid's queue of
\* parse and render calls, which it runs one at a time in the order made.
DiagramMounted(chart) ==
    [mounted |-> TRUE, chart |-> chart, svg |-> NoSvg, error |-> NoError,
     isLoading |-> TRUE, calls |-> <<>>, started |-> 0, effect |-> TRUE,
     observed |-> NoChart, mutated |-> FALSE]

\* renderDiagram of the render for chart c, up to its first await.
RenderDiagram(d, c) ==
    IF c = ""
    THEN [d EXCEPT !.isLoading = FALSE, !.error = NoError, !.svg = NoSvg]
    ELSE [d EXCEPT !.isLoading = TRUE, !.error = NoError,
                   !.calls = Append(d.calls, [chart |-> c, stage |-> "parse"]),
                   !.started = d.started + 1]

\* What the component returns.
Shown(d) ==
    IF d.isLoading THEN <<"spinner", "">>
    ELSE IF d.error # NoError THEN <<"error", d.error>>
    ELSE IF d.svg # NoSvg THEN <<"svg", d.svg>>
    ELSE <<"nothing", "">>

\* A write of documentElement's class attribute queues a record for the
\* connected observer.
ClassWritten(d) ==
    IF d.mounted /\ d.observed # NoChart THEN [d EXCEPT !.mutated = TRUE] ELSE d

DiagramFrame == UNCHANGED <<serviceVars, quizPage, homePage, themeButton>>

\* The effect on [chart, renderDiagram]: the observer of the render before is
\* disconnected, renderDiagram runs and a new observer is connected.
DiagramEffects ==
    /\ diagram.mounted /\ diagram.effect
    /\ diagram.chart = "" \/ diagram.started < MaxRenders
    /\ diagram' = [RenderDiagram(diagram, diagram.chart) EXCEPT
                      !.effect = FALSE, !.observed = diagram.chart,
                      !.mutated = FALSE]
    /\ DiagramFrame

\* The parent renders the component with another chart.
ChartChange ==
    /\ diagram.mounted /\ ~diagram.effect
    /\ \E c \in Charts \ {diagram.chart} :
         diagram' = [diagram EXCEPT !.chart = c, !.effect = TRUE]
    /\ DiagramFrame

\* The observer's callback: renderDiagram of the render that connected it.
ObserverCallback ==
    /\ diagram.mounted /\ diagram.mutated
    /\ diagram.observed = "" \/ diagram.started < MaxRenders
    /\ diagram' = [RenderDiagram(diagram, diagram.observed) EXCEPT
                      !.mutated = FALSE]
    /\ DiagramFrame

HeadCall(stage) ==
    /\ diagram.mounted
    /\ Len(diagram.calls) > 0
    /\ Head(diagram.calls).stage = stage

\* await mermaid.parse(chart) resolves: mermaid.render is called.
ParseResolved ==
    /\ HeadCall("parse")
    /\ diagram' = [diagram EXCEPT
                      !.calls = Append(Tail(diagram.calls),
                                       [chart |-> Head(diagram.calls).chart,
                                        stage |-> "render"])]
    /\ DiagramFrame

\* The catch and the finally of renderDiagram.
RenderFailed(d) ==
    [d EXCEPT !.calls = Tail(d.calls), !.error = Head(d.calls).chart,
              !.svg = NoSvg, !.isLoading = FALSE]

\* await mermaid.parse(chart) rejects.
ParseRejected ==
    /\ HeadCall("parse")
    /\ diagram' = RenderFailed(diagram)
    /\ DiagramFrame

\* setSvg(renderedSvg), then the finally of renderDiagram.
Rendered(d) ==
    [d EXCEPT !.calls = Tail(d.calls), !.svg = Head(d.calls).chart,
              !.isLoading = FALSE]

\* await mermaid.render(id, chart) resolves.
RenderResolved ==
    /\ HeadCall("render")
    /\ diagram' = Rendered(diagram)
    /\ DiagramFrame

\* await mermaid.render(id, chart) rejects.
RenderRejected ==
    /\ HeadCall("render")
    /\ diagram' = RenderFailed(diagram)
    /\ DiagramFrame

Themes == {"light", "dark", "auto"}
NoSavedTheme == "null"

\* index.tsx before the first render: with nothing saved, the 'dark' class
\* is added and 'dark' is saved.  The button is then constructed:
\* useState('auto'), its two effects not yet run.
ThemeMounted(savedTheme, matches) ==
    [mounted |-> TRUE, theme |-> "auto", seen |-> "auto",
     saved |-> IF savedTheme = NoSavedTheme THEN "dark" ELSE savedTheme,
     dark |-> (savedTheme = NoSavedTheme), matches |-> matches,
     effects |-> "mount", listening |-> FALSE]

\* apply(mode), and the test of the effect on [theme].
Apply(mode, matches) == mode = "dark" \/ (mode = "auto" /\ matches)

\* The effect on [theme] of the last render.
ThemeEffect(t) ==
    [t EXCEPT !.dark = Apply(t.seen, t.matches), !.saved = t.seen,
              !.effects = "none"]

\* The effects of the first render: the mount effect, then the effect on
\* [theme], both with theme = 'auto'.
MountEffects(t) ==
    LET init == IF t.saved = NoSavedTheme THEN "auto" ELSE t.saved
    IN  ThemeEffect([t EXCEPT !.theme = init, !.dark = Apply(init, t.matches),
                              !.listening = TRUE])

\* setTheme(prev => ...) of toggleTheme.
NextTheme(prev) ==
    IF prev = "light" THEN "dark" ELSE IF prev = "dark" THEN "auto" ELSE "light"

ThemeFlush(t) ==
    IF t.effects = "mount" THEN MountEffects(t)
    ELSE IF t.effects = "theme" THEN ThemeEffect(t) ELSE t
ThemeCommit(t) ==
    IF t.theme # t.seen THEN [t EXCEPT !.seen = t.theme, !.effects = "theme"] ELSE t

\* Pending effects and renders run before a click is handled, and the
\* re-render after it and its effect are synchronous.
ThemeSettled(t) == ThemeFlush(ThemeCommit(ThemeFlush(t)))

ThemeFrame == UNCHANGED <<serviceVars, quizPage, homePage>>

\* The passive effects of the button's last render run.
ThemeEffects ==
    /\ themeButton.mounted /\ themeButton.effects # "none"
    /\ themeButton' = ThemeFlush(themeButton)
    /\ diagram' = ClassWritten(diagram)
    /\ ThemeFrame

\* React renders the queued setTheme.
ThemeRender ==
    /\ themeButton.mounted /\ themeButton.effects = "none"
    /\ themeButton.theme # themeButton.seen
    /\ themeButton' = ThemeCommit(themeButton)
    /\ UNCHANGED diagram
    /\ ThemeFrame

\* onClick={toggleTheme}.
ToggleClick ==
    /\ themeButton.mounted
    /\ LET t == ThemeSettled(themeButton)
       IN  themeButton' = ThemeSettled([t EXCEPT !.theme = NextTheme(t.theme)])
    /\ diagram' = ClassWritten(diagram)
    /\ ThemeFrame

\* The listener of the mount effect: if (theme === 'auto') apply('auto'), with
\* the theme of the first render.
Listener(t) ==
    IF t.listening THEN [t EXCEPT !.dark = Apply("auto", t.matches)] ELSE t

\* The system colour scheme changes: the media query's change event.
SystemChange ==
    /\ themeButton.mounted
    /\ themeButton' = Listener([themeButton EXCEPT !.matches = ~themeButton.matches])
    /\ diagram' = IF themeButton.listening THEN ClassWritten(diagram) ELSE diagram
    /\ ThemeFrame

InitWidgets ==
    /\ caller = "none"
    /\ RetryIdle
    /\ PipeIdle
    /\ TextIdle
    /\ inFlight = 0
    /\ events = <<>>
    /\ quizPage = NotMounted
    /\ homePage = NotMounted
    /\ \E chart \in Charts : diagram = DiagramMounted(chart)
    /\ \E savedTheme \in Themes \cup {NoSavedTheme}, matches \in BOOLEAN :
         themeButton = ThemeMounted(savedTheme, matches)

NextWidgets ==
    \/ DiagramEffects
    \/ ChartChange
    \/ ObserverCallback
    \/ ParseResolved
    \/ ParseRejected
    \/ RenderResolved
    \/ RenderRejected
    \/ ThemeEffects
    \/ ThemeRender
    \/ ToggleClick
    \/ SystemChange

SpecWidgets == InitWidgets /\ [][NextWidgets]_vars

----------------------------------------------------------------------------
(* Retry executor: properties *)

\* The markers the classification is documented by.
Markers == { <<"4","2","9">>, <<"5","0","3">>, RESOURCE_EXHAUSTED, UNAVAILABLE }
HasSerializedForm(err) == Stringify(err).kind = "text"
IsTransient(err) ==
    HasSerializedForm(err) /\ \E m \in Markers : Includes(Stringify(err).s, m)
IsFatal(err) ==
    HasSerializedForm(err) /\ \A m \in Markers : ~Includes(Stringify(err).s, m)

RECURSIVE Pow2(_)
Pow2(n) == IF n <= 0 THEN 1 ELSE 2 * Pow2(n - 1)

RECURSIVE SumSeq(_)
SumSeq(s) == IF s = <<>> THEN 0 ELSE Head(s) + SumSeq(Tail(s))

Failed(n) == fnLog[n].kind = "err"
Last(s) == s[Len(s)]
Settled == rpc \in {"resolved", "rejected"}

\* C1: for maxAttempts >= 1, fn is invoked at most maxAttempts times, and when
\* the first maxAttempts invocations all fail with transient errors withRetry
\* rejects with the error of the maxAttempts-th invocation.
C1_AttemptCeiling ==
    maxAttempts >= 1 =>
        /\ calls <= maxAttempts
        /\ Len(fnLog) <= maxAttempts
        /\ ( /\ Len(fnLog) = maxAttempts
             /\ \A n \in 1..maxAttempts : Failed(n) /\ IsTransient(fnLog[n].v) )
           => /\ rpc = "rejected"
              /\ outcome = [kind |-> "err", v |-> fnLog[maxAttempts].v]
              /\ calls = maxAttempts

C1_Witness ==
    /\ maxAttempts = 3
    /\ Len(fnLog) = 3
    /\ \A n \in 1..3 : Failed(n) /\ IsTransient(fnLog[n].v)
    /\ rpc = "rejected"
    /\ outcome.v = "status503"

\* C2: a fatal error thrown by fn ends the run at once: no further attempt, no
\* suspension, no onRetry for it, and withRetry rejects with that same value;
\* on the first attempt fn has then been invoked exactly once.
C2_FatalNotRetried ==
    \A n \in 1..Len(fnLog) :
        (Failed(n) /\ IsFatal(fnLog[n].v)) =>
            /\ n = Len(fnLog)
            /\ calls = n
            /\ rpc = "rejected"
            /\ outcome = [kind |-> "err", v |-> fnLog[n].v]
            /\ Last(events) = Ev("fail", idx, n)
            /\ Len(sleeps) = n - 1
            /\ Len(SelectSeq(events, LAMBDA x : x.e = "onRetry")) \in {0, n - 1}
            /\ inFlight = 0

C2_Witness ==
    /\ hasOnRetry
    /\ rpc = "rejected"
    /\ calls = 1
    /\ fnLog = <<[kind |-> "err", v |-> "status42and9"]>>
    /\ outcome.v = "status42and9"

\* C3: k < maxAttempts transient failures followed by a success: withRetry
\* resolves with the result of that first success after exactly k+1
\* invocations, fn is not invoked again, and the run is never left suspended.
C3_Inv ==
    /\ \A n \in 1..Len(fnLog) :
         ~Failed(n) =>
            /\ n = Len(fnLog)
            /\ \A k \in 1..(n - 1) : Failed(k) /\ IsTransient(fnLog[k].v)
            /\ n <= maxAttempts
            /\ calls = n
            /\ rpc = "resolved"
            /\ outcome = [kind |-> "ok", v |-> fnLog[n].v]
            /\ inFlight = 0
    /\ ( /\ Len(fnLog) >= 1
         /\ Len(fnLog) < maxAttempts
         /\ \A k \in 1..Len(fnLog) : Failed(k) /\ IsTransient(fnLog[k].v) )
       => \/ rpc = "await_sleep" /\ calls = Len(fnLog)
          \/ rpc = "await_fn" /\ calls = Len(fnLog) + 1

C3_FirstSuccessReturned ==
    /\ []C3_Inv
    /\ (rpc = "await_sleep") ~> (rpc = "await_fn")
    /\ (caller = "direct") ~> Settled

C3_Witness ==
    /\ maxAttempts = 3
    /\ rpc = "resolved"
    /\ calls = 3
    /\ Failed(1) /\ Failed(2)
    /\ outcome = [kind |-> "ok", v |-> "imageBytes"]

\* C4: the k-th suspension lasts initialDelay * 2^(k-1); before the N-th
\* invocation the run has been suspended initialDelay * (2^(N-1) - 1) in all;
\* nothing is slept before the first attempt or after the last failed one.
C4_BackoffSum ==
    /\ \A k \in 1..Len(sleeps) : sleeps[k] = initialDelay * Pow2(k - 1)
    /\ rpc = "await_fn" =>
         /\ Len(sleeps) = calls - 1
         /\ SumSeq(sleeps) = initialDelay * (Pow2(calls - 1) - 1)
    /\ rpc = "await_sleep" =>
         /\ Len(sleeps) = calls - 1
         /\ delay = initialDelay * Pow2(calls - 1)
         /\ calls < maxAttempts
    /\ (rpc = "rejected" /\ calls >= 1) =>
         /\ Len(sleeps) = calls - 1
         /\ Len(SelectSeq(events, LAMBDA x : x.e = "sleep")) = calls - 1

C4_Witness ==
    /\ initialDelay = 2
    /\ rpc = "await_fn"
    /\ calls = 3
    /\ sleeps = <<2, 4>>

\* C5: each retried failure is followed by exactly one onRetry carrying the
\* number of the attempt that just failed and the delay about to be waited,
\* then the suspension for that delay, then the doubling, then the next
\* invocation; a failure that is propagated gets no onRetry.
C5_ObserverOrder ==
    (caller = "direct" /\ hasOnRetry) =>
        \A j \in 1..Len(events) :
            /\ events[j].e = "fail" =>
                 IF j = Len(events)
                 THEN rpc = "rejected"
                 ELSE /\ events[j + 1] =
                           Ev("onRetry", events[j].b, initialDelay * Pow2(events[j].b - 1))
                      /\ events[j + 2] = Ev("sleep", events[j + 1].b, 0)
            /\ events[j].e = "onRetry" => events[j - 1].e = "fail"
            /\ events[j].e = "sleep" =>
                 IF j = Len(events)
                 THEN rpc = "await_sleep" /\ delay = events[j].a
                 ELSE /\ events[j + 1] = Ev("wake", events[j].a, 0)
                      /\ events[j + 2] = Ev("double", 2 * events[j].a, 0)
                      /\ events[j + 3] = Ev("call", idx, events[j - 2].b + 1)

C5_Witness ==
    /\ caller = "direct" /\ hasOnRetry
    /\ initialDelay = 1
    /\ rpc = "rejected"
    /\ calls = 3
    /\ SelectSeq(events, LAMBDA x : x.e = "onRetry") =
          <<Ev("onRetry", 1, 1), Ev("onRetry", 2, 2)>>

----------------------------------------------------------------------------
(* Media enrichment pipeline: properties *)

IsProgress(x) ==
    x.e \in {"progress.start", "progress.creating", "progress.retry", "progress.item",
             "progress.complete", "progress.fallback", "progress.error",
             "progress.script"}
Count(kind) == Len(SelectSeq(events, LAMBDA x : x.e = kind))
IsImageReference(url) == url.kind \in {"data", "fallback"}
Returned == ppc = "done"
Carries(o, i) ==
    /\ o.imagePrompt = items[i].imagePrompt
    /\ o.text = items[i].text

\* Index of the last push at or before position j of events, 0 when there is none.
RECURSIVE PrevPush(_)
PrevPush(j) ==
    IF j = 0 THEN 0 ELSE IF events[j].e = "push" THEN j ELSE PrevPush(j - 1)

\* Every input item has a prompt and a text.
ItemsComplete == \A i \in 1..Len(items) : items[i] \in ItemPool

C7_NoPartialDocument ==
    /\ ret.kind \in {"none", "doc", "null"}
    /\ ret.kind # "none" <=> Returned
    /\ ret.kind = "doc" =>
         /\ Len(ret.slides) = Len(items)
         /\ ret.slides = out
         /\ \A i \in 1..Len(items) :
              /\ Carries(ret.slides[i], i)
              /\ IsImageReference(ret.slides[i].imageUrl)
    /\ \A i \in 1..Len(out) : IsImageReference(out[i].imageUrl) /\ Carries(out[i], i)
    /\ (ppc = "await_retry" /\ rpc = "rejected") => (ret.kind = "none" /\ Len(out) = idx)
    /\ (Returned /\ Count("call") > 0) => ret.kind = "doc"

\* C8: at most one image-generation call is in flight, and a call for item i
\* is made only when items 0..i-1 have all been pushed and item i has not.
C8_Sequential ==
    /\ inFlight \in {0, 1}
    /\ inFlight = 1 <=> rpc = "await_fn"
    /\ rpc = "await_fn" => ppc = "await_retry" /\ Len(out) = idx
    /\ \A j \in 1..Len(events) :
         events[j].e = "call" =>
            /\ Len(SelectSeq(SubSeq(events, 1, j), LAMBDA x : x.e = "push")) = events[j].a
            /\ (events[j].a > 0 => events[PrevPush(j)].a = events[j].a - 1)

C8_Witness ==
    /\ inFlight = 1
    /\ idx = 1
    /\ calls = 2
    /\ Len(out) = 1

\* C9 as stated: every run over N >= 1 items contains exactly N-1 inter-item
\* delays of one second.
C9_DelaysInEveryRun ==
    (Returned /\ ret.kind = "doc" /\ Len(items) >= 1) =>
        /\ Count("delay") = Len(items) - 1
        /\ Count("delayDone") = Len(items) - 1

\* C9 amended: in a run with the client present, the first image-generation
\* call of item i+1 is preceded by a completed one-second delay that started
\* after item i was pushed, no delay precedes the first item, and the run over
\* N >= 1 items contains exactly N-1 delays; without the client there is none.
C9_InterItemDelay ==
    /\ \A j \in 1..Len(events) :
         /\ (events[j].e = "call" /\ events[j].b = 1) =>
              IF events[j].a = 0
              THEN Len(SelectSeq(SubSeq(events, 1, j),
                                 LAMBDA x : x.e \in {"delay", "delayDone"})) = 0
              ELSE /\ events[PrevPush(j) + 1 + (IF caller = "presentation" THEN 1 ELSE 0)]
                        = Ev("delay", 1000, events[j].a)
                   /\ events[j - 2] = Ev("delayDone", 1000, events[j].a)
                   /\ PrevPush(j) < j - 2
         /\ events[j].e = "delay" => events[j - 1].e \in {"push", "progress.item"}
    /\ ppc = "await_delay" <=> Count("delay") = Count("delayDone") + 1
    /\ ppc # "await_delay" => Count("delay") = Count("delayDone")
    /\ (Returned /\ ret.kind = "doc" /\ Len(items) >= 1 /\ ai) =>
         Count("delayDone") = Len(items) - 1
    /\ ~ai => Count("delay") = 0

C9_Witness ==
    /\ ai /\ Returned /\ ret.kind = "doc"
    /\ Len(items) = 2
    /\ Count("delayDone") = 1

\* C10: after an item is pushed there is an onProgress call before the next
\* image-generation call starts, and before the run returns.
C10_ProgressAfterItem ==
    /\ \A j \in 1..Len(events) :
         (events[j].e = "call" /\ PrevPush(j) > 0) =>
            \E p \in (PrevPush(j) + 1)..(j - 1) : IsProgress(events[p])
    /\ (Returned /\ PrevPush(Len(events)) > 0) =>
         \E p \in (PrevPush(Len(events)) + 1)..Len(events) : IsProgress(events[p])

C10_Witness ==
    /\ caller = "video" /\ Returned /\ ret.kind = "doc"
    /\ Len(items) = 2
    /\ Count("progress.creating") = 2
    /\ Count("progress.retry") = 0

----------------------------------------------------------------------------
(* Claims about script failure and about the content operations *)

\* The script request rejected, or resolved with a text that is not JSON, or
\* with an empty scene array.
ScriptFailed ==
    \/ origin.kind \in {"rejected", "raw"}
    \/ origin.kind = "value" /\ origin.v = ArrValue(<<>>)

\* C11: when the script request of generateVideoAssets rejects, or its
\* response does not parse, or parses to an empty script, the run is over at
\* once: null is returned, and no image-generation call and no inter-item
\* delay has happened.
C11_ScriptFailureAborts ==
    (caller = "video" /\ ai /\ ppc # "await_script" /\ ScriptFailed) =>
        /\ Returned
        /\ ret = NoDocument
        /\ out = <<>>
        /\ Count("call") = 0
        /\ Count("delay") = 0

\* An empty scene array inside a json fence ended the run with null.
C11_Witness ==
    /\ caller = "video"
    /\ origin.kind = "value" /\ origin.v = ArrValue(<<>>) /\ origin.wrap = "jsonFence"
    /\ parsed = ArrValue(<<>>)
    /\ Returned
    /\ ret = NoDocument

KeysOf(v) == [k \in 1..Len(v.o) |-> v.o[k].k]
NoRemoteCall == Count("model") = 0 /\ Count("call") = 0
HasField(v, key) == v.t = "obj" /\ \E k \in 1..Len(v.o) : v.o[k].k = <<key>>
Field(v, key) == (CHOOSE m \in { v.o[k] : k \in 1..Len(v.o) } : m.k = <<key>>).v
IsText(v, strings) == v.t = "str" /\ Len(v.s) = 1 /\ v.s[1] \in strings
AnyText(v) == v.t = "str"
Throwing == {"generateNotes", "generateQuizQuestions", "generatePresentationContent"}
NoKeyString ==
    [generateSummary |-> "API Key not configured. Summary unavailable.",
     generateExplanation |-> "API Key not configured. Explanation unavailable.",
     generateFeedbackOnQuiz |->
        "AI feedback is unavailable as the API key is not configured."]
TooShortString ==
    [generateSummary |-> "Content is too short to generate a meaningful summary.",
     generateExplanation |-> "Content is too short to generate a meaningful explanation."]
\* The default of suggestMetadata: a title made from the content's first 30
\* characters, 'General', 'Automated Analysis', 'Medium'.
IsDefaultMetadata(v) ==
    /\ KeysOf(v) = << <<"title">>, <<"subject">>, <<"topic">>, <<"difficulty">> >>
    /\ Field(v, "title").s[1] = "Content Analysis: "
    /\ Field(v, "title").s[3] = ToString(IF content < 30 THEN content ELSE 30)
    /\ IsText(Field(v, "subject"), {"General"})
    /\ IsText(Field(v, "topic"), {"Automated Analysis"})
    /\ IsText(Field(v, "difficulty"), {"Medium"})
WellFormedMetadata(v) ==
    /\ HasField(v, "title") /\ AnyText(Field(v, "title"))
    /\ HasField(v, "subject") /\ AnyText(Field(v, "subject"))
    /\ HasField(v, "topic") /\ AnyText(Field(v, "topic"))
    /\ HasField(v, "difficulty")
    /\ IsText(Field(v, "difficulty"), {"Easy", "Medium", "Hard"})

\* C12 as stated: without the API key every operation is over before any
\* remote call and hands back a placeholder or fallback; none throws.
C12_NoKeyPlaceholder ==
    (~ai /\ caller # "none") =>
        /\ ppc = "done"
        /\ NoRemoteCall
        /\ ret.kind \notin {"rejected", "thrown"}

\* C12, amended: without the API key every operation is over before any
\* remote call.  suggestMetadata resolves with its default, generateSummary,
\* generateExplanation and generateFeedbackOnQuiz with their fixed messages,
\* generateBlockDiagram and generateVideoAssets with null,
\* generatePresentationImages with every slide on its fallback image;
\* generateNotes, generateQuizQuestions and generatePresentationContent
\* reject, and startOrGetChat throws, with "API Key not configured.".
C12_NoKeyShortCircuit ==
    (~ai /\ caller # "none") =>
        /\ ppc = "done"
        /\ NoRemoteCall
        /\ caller \in Throwing =>
              ret.kind = "rejected" /\ ret.s = "API Key not configured."
        /\ caller = "startOrGetChat" =>
              ret.kind = "thrown" /\ ret.s = "API Key not configured."
        /\ caller \in DOMAIN NoKeyString =>
              ret.kind = "resolved" /\ ret.s = NoKeyString[caller]
        /\ caller = "suggestMetadata" =>
              ret.kind = "resolved" /\ IsDefaultMetadata(ret.j)
        /\ caller = "generateBlockDiagram" =>
              ret.kind = "resolved" /\ ret.j = NullValue
        /\ caller = "video" => ret.kind = "null"
        /\ caller = "presentation" =>
              /\ ret.kind = "doc" /\ Len(ret.slides) = Len(items)
              /\ \A k \in 1..Len(ret.slides) : ret.slides[k].imageUrl.kind = "fallback"

\* Without the key generateNotes rejected at once, nothing having been sent.
C12_Witness ==
    /\ ~ai
    /\ caller = "generateNotes"
    /\ ppc = "done"
    /\ ret.kind = "rejected"
    /\ events = <<>>

\* C13 as stated: generateSummary, generateExplanation and
\* generateFeedbackOnQuiz never reject: whatever the model call does, each
\* resolves with a string, the real output or a fixed placeholder.
C13_DisplayOpsNeverReject ==
    (caller \in {"generateSummary", "generateExplanation", "generateFeedbackOnQuiz"}
        /\ ppc = "done") =>
        /\ ret.kind = "resolved"
        /\ ret.type \in {"string", "feedback"}

\* The model call of a structurally required operation failed: the request
\* rejected, or withRetry gave up.
ModelCallFailed ==
    IF caller = "generatePresentationContent" THEN rpc = "rejected"
    ELSE origin.kind = "rejected"

C15_ShortInputGuard ==
    (caller \in DOMAIN TooShortString) =>
        /\ content < 20 => NoRemoteCall /\ ppc = "done" /\ ret.s = TooShortString[caller]
        /\ (content >= 20 /\ ai) => Count("model") = 1 /\ Count("call") = 0

\* C15, amended: with credentials present, an input shorter than 20
\* characters makes generateSummary and generateExplanation return the "too
\* short" message without a model call, and an input of 20 characters or
\* more makes exactly one model call; without credentials no model call is
\* made and the "API Key not configured" message is returned whatever the
\* length.
C15_ShortInputGuardWithKey ==
    (caller \in DOMAIN TooShortString) =>
        /\ (content < 20 /\ ai) =>
              NoRemoteCall /\ ppc = "done" /\ ret.s = TooShortString[caller]
        /\ (content >= 20 /\ ai) => Count("model") = 1 /\ Count("call") = 0
        /\ ~ai => NoRemoteCall /\ ppc = "done" /\ ret.s = NoKeyString[caller]

\* With credentials, 19 characters got the "too short" message and no call.
C15_Witness ==
    /\ ai
    /\ caller = "generateExplanation"
    /\ content = 19
    /\ ret.s = "Content is too short to generate a meaningful explanation."
    /\ events = <<>>

\* C16 as stated: suggestMetadata never rejects; without credentials, on a
\* rejected call and on an unparseable response it resolves with its default,
\* and in every case the value it resolves with has a title, a subject, a
\* topic and a difficulty among Easy, Medium, Hard.
C16_MetadataWellFormed ==
    (caller = "suggestMetadata" /\ ppc = "done") =>
        /\ ret.kind = "resolved"
        /\ (~ai \/ origin.kind \in {"rejected", "raw"}) => IsDefaultMetadata(ret.j)
        /\ WellFormedMetadata(ret.j)

----------------------------------------------------------------------------
(* Claims about the response normalizer *)

IsJsValue(v) == v.t \in {"str", "lit", "num", "arr", "obj"}
OddQuotes(s) == Cardinality({ k \in 1..Len(s) : s[k] = Quote }) % 2 = 1
HasPrefix(s, p) == Len(s) >= Len(p) /\ \A k \in 1..Len(p) : s[k] = p[k]
\* No string of the object holds a closing brace right before an opening one.
Plain(v) == \A k \in 1..Len(v.o) : ~Includes(v.o[k].v.s, <<"}", "{">>)

\* C17: parseJsonFromText never lets an exception out: for every input text
\* it returns a value (the parsed one, or null), and a text that cannot be
\* JSON, such as one with an unclosed string, comes back as null.
C17_NeverThrows ==
    (caller = "parseJsonFromText") =>
        /\ IsJsValue(parsed)
        /\ (origin.kind = "raw" /\ OddQuotes(text)) => parsed = NullValue

\* A lone opening brace went through parseJsonFromText and came back as null.
C17_Witness ==
    /\ caller = "parseJsonFromText"
    /\ text = <<"{">>
    /\ parsed = NullValue

\* C18 as stated: for every JSON value v, the fenced serialization of v, with
\* or without a language tag, normalizes to v, the same value the unfenced
\* serialization normalizes to; strings holding "}" before "{" included.
C18_RoundTrip ==
    (caller = "parseJsonFromText" /\ origin.kind = "value"
        /\ origin.wrap \in {"fence", "jsonFence"}) =>
        /\ parsed = origin.v
        /\ parsed = ParseJsonFromText(JsonText(origin.v))

\* C19 as stated: two object literals joined as "}{" inside a fenced block
\* normalize to one array or object holding both, not to null.
C19_JoinedObjectsCombined ==
    (caller = "parseJsonFromText" /\ origin.kind = "joined"
        /\ origin.wrap \in {"fence", "jsonFence"}) =>
        /\ parsed # NullValue
        /\ parsed.t \in {"arr", "obj"}

\* C19, amended: when the two object literals are neighbouring elements of an
\* array whose comma is missing, parseJsonFromText returns an array of two
\* objects with the keys of the two literals, equal to the array of both
\* objects when none of their strings holds "}" before "{"; two object
\* literals joined at top level normalize to null, fenced or not.
C19_MissingCommaInArray ==
    /\ (caller = "parseJsonFromText" /\ origin.kind = "joinedInArray") =>
          /\ parsed.t = "arr" /\ Len(parsed.a) = 2
          /\ parsed.a[1].t = "obj" /\ KeysOf(parsed.a[1]) = KeysOf(origin.v)
          /\ parsed.a[2].t = "obj" /\ KeysOf(parsed.a[2]) = KeysOf(origin.w)
          /\ (Plain(origin.v) /\ Plain(origin.w)) =>
                parsed = ArrValue(<<origin.v, origin.w>>)
    /\ (caller = "parseJsonFromText" /\ origin.kind = "joined") =>
          parsed = NullValue

\* [{"a":1}{"b":true}] inside a json fence came back as the array of both.
C19_Witness ==
    /\ caller = "parseJsonFromText"
    /\ origin.kind = "joinedInArray" /\ origin.wrap = "jsonFence"
    /\ Len(origin.v.o) = 1 /\ Len(origin.w.o) = 1
    /\ origin.v # origin.w
    /\ parsed = ArrValue(<<origin.v, origin.w>>)

\* C20: parseMermaidFromText returns null unless the content, after trimming
\* and fence extraction, starts with "graph TD" or "graph LR", and then it
\* returns that content unchanged.  A body that stands alone or inside a
\* plain or mermaid-tagged fence on lines of its own is the content; under
\* any other wrapping the fence is not taken off and the result is null.
C20_DiagramPrefixOnly ==
    /\ (caller = "parseMermaidFromText" /\ origin.kind = "diagram") =>
          parsed = IF /\ origin.wrap \in {"none", "padded", "fence",
                                          "mermaidFence", "paddedFence"}
                      /\ (HasPrefix(origin.body, GraphTD) \/ HasPrefix(origin.body, GraphLR))
                   THEN StrValue(origin.body)
                   ELSE NullValue
    /\ (caller = "parseMermaidFromText" /\ origin.kind # "diagram") =>
          parsed = NullValue

\* A fenced, padded "graph LR" diagram of several lines came back unchanged.
C20_Witness ==
    /\ caller = "parseMermaidFromText"
    /\ origin.wrap = "paddedFence"
    /\ HasPrefix(origin.body, GraphLR) /\ Len(origin.body) > Len(GraphLR)
    /\ parsed = StrValue(origin.body)

\* ---------------------------------------------------------------------------
\* Prompt truncation (C21)
\* ---------------------------------------------------------------------------

GenerationOps ==
    { "generateSummary", "generateExplanation", "generateNotes",
      "generateQuizQuestions", "generateFeedbackOnQuiz",
      "generatePresentationContent", "generateBlockDiagram" }
CuttingAt8000 ==
    { "generateSummary", "generateExplanation", "generateNotes",
      "generateQuizQuestions" }
IsPrompt(ev) == ev.e \in {"model", "prompt"}
FirstChars(n, k) == IF n <= k THEN n ELSE k
InPrompt(n) == \E j \in 1..Len(events) : IsPrompt(events[j]) /\ events[j].a = n

\* C21 (as stated): every generation operation puts the first 8000 characters
\* of its input in the prompt: never more than 8000 characters, and the whole
\* input when it has at most 8000.
C21_TruncatedTo8000 ==
    caller \in GenerationOps =>
        \A j \in 1..Len(events) :
            IsPrompt(events[j]) => events[j].a = FirstChars(content, 8000)

\* C21 (amended): summary, explanation, tiered notes and quiz put the first
\* 8000 characters of the input in the prompt; feedback puts the first 1000;
\* slide outline and diagram put the whole input, however long.
C21_TruncationPerOperation ==
    \A j \in 1..Len(events) :
        IsPrompt(events[j]) =>
            /\ caller \in CuttingAt8000 =>
                   events[j].a = FirstChars(content, 8000)
            /\ caller = "generateFeedbackOnQuiz" =>
                   events[j].a = FirstChars(content, 1000)
            /\ caller \in {"generatePresentationContent", "generateBlockDiagram"} =>
                   events[j].a = content

C21_Witness ==
    /\ caller = "generateQuizQuestions"
    /\ content = 8001
    /\ InPrompt(8000)
    /\ ppc = "done"

\* ---------------------------------------------------------------------------
\* The throw after the loop of withRetry (C23)
\* ---------------------------------------------------------------------------

ExceededThrown == outcome.kind = "err" /\ outcome.v = "ExceededRetryAttempts"
Entered == caller = "direct" /\ rpc # "idle"

ItemSettled ==
    /\ caller \in {"presentation", "video"}
    /\ ppc \in {"await_delay", "done"}
    /\ outcome.kind # "pending"
GotImageBytes == outcome.kind = "ok" /\ outcome.v = "imageBytes"

\* C24: image generation is attempted at most 3 times per item, hence at most
\* 3N times for N items, and once the attempts of an item are over the item is
\* in the output with the inline image exactly when an attempt succeeded with
\* image bytes and with the fallback URL in every other case.
C24_ThreeAttemptsImageOrFallback ==
    /\ \A j \in 1..Len(events) : events[j].e = "call" => events[j].b <= 3
    /\ Count("call") <= 3 * Len(items)
    /\ ItemSettled =>
         /\ idx >= 1 /\ Len(out) = idx
         /\ out[idx].imageUrl.kind = (IF GotImageBytes THEN "data" ELSE "fallback")
         /\ Returned => ret.kind = "doc"

\* ---------------------------------------------------------------------------
\* What the pipeline leaves alone (C25)
\* ---------------------------------------------------------------------------

SameButImageUrl(o, item) == [o EXCEPT !.imageUrl = item.imageUrl] = item
Enriching == ppc \in {"await_retry", "await_delay"}

\* C25: every output item equals the input item at its position in every
\* field but imageUrl, a returned presentation carries the title of the input,
\* and the input items are the same before and after every step of a run.
C25_OnlyImageUrlChanges ==
    /\ [](/\ \A i \in 1..Len(out) : SameButImageUrl(out[i], items[i])
          /\ (caller \in {"presentation", "video"} /\ ret.kind = "doc") =>
                /\ Len(ret.slides) = Len(items)
                /\ \A i \in 1..Len(items) : SameButImageUrl(ret.slides[i], items[i])
                /\ caller = "presentation" => ret.title = "title")
    /\ [][Enriching => items' = items]_vars

C25_Witness ==
    /\ caller = "presentation" /\ ret.kind = "doc"
    /\ Len(items) = 2
    /\ items[1].imageUrl = StaleUrl
    /\ ret.slides[1].imageUrl.kind = "data"
    /\ ret.slides[2].imageUrl.kind = "fallback"
    /\ ret.title = "title"

\* ---------------------------------------------------------------------------
\* Quiz page: results recorded per set of questions (C26)
\* ---------------------------------------------------------------------------

\* C26: between the entry into 'taking' and the next load of questions
\* addQuizResult is called at most once, whatever the order of the timer
\* reaching zero, the Submit clicks and the renders.
C26_OneResultPerTaking ==
    quizPage.mounted => Len(quizPage.allQuizzes) <= 1

\* ---------------------------------------------------------------------------
\* Quiz page: the current question and the answers (C27)
\* ---------------------------------------------------------------------------

IdsOf(questions) == { questions[k].id : k \in 1..Len(questions) }

\* C27: whenever the quiz state is 'taking', currentQuestionIndex is an index
\* of questions and every recorded answer is the answer to one of them.
C27_IndexAndAnswersInRange ==
    (quizPage.mounted /\ quizPage.quizState = "taking") =>
        /\ 0 <= quizPage.currentQuestionIndex
        /\ quizPage.currentQuestionIndex < Len(quizPage.questions)
        /\ DOMAIN quizPage.userAnswers \subseteq IdsOf(quizPage.questions)

\* ---------------------------------------------------------------------------
\* Failure paths of the pages (C22)
\* ---------------------------------------------------------------------------

LoadFailures == {"missingContent", "missingKey", "emptyList", "loadRejected"}

\* C22: a failed load of the questions leaves the quiz page in 'results' with
\* an error message, a rejected feedback request leaves it in 'results' with
\* the placeholder feedback, and the page never stays in 'loading'; a rejected
\* processing step of the home page leaves the error message set and
\* isLoading false, and isLoading never stays true.
C22_FailurePathsEndDefined ==
    /\ [](quizPage.mounted =>
            /\ quizPage.last \in LoadFailures =>
                  quizPage.quizState = "results" /\ quizPage.error # "null"
            /\ quizPage.last = "feedbackRejected" =>
                  /\ quizPage.quizState = "results"
                  /\ quizPage.feedback = "Could not generate AI feedback.")
    /\ [](homePage.mounted =>
            (homePage.last = "rejected" =>
                /\ homePage.error # "null"
                /\ ~homePage.isLoading))
    /\ (quizPage.mounted /\ quizPage.quizState = "loading")
          ~> (quizPage.mounted /\ quizPage.quizState # "loading")
    /\ (homePage.mounted /\ homePage.isLoading)
          ~> (homePage.mounted /\ ~homePage.isLoading)

C22_Witness ==
    /\ quizPage.mounted
    /\ quizPage.last = "feedbackRejected"
    /\ quizPage.quizState = "results"
    /\ quizPage.feedback = "Could not generate AI feedback."
    /\ quizPage.seen.quizState = "submitting"

\* ---------------------------------------------------------------------------
\* The quiz timer (C28)
\* ---------------------------------------------------------------------------

DiagramQuiet ==
    /\ diagram.mounted
    /\ diagram.calls = <<>>
    /\ ~diagram.effect
    /\ ~diagram.mutated

\* C29: once every started render of the diagram has completed, isLoading
\* is false and the component shows the svg or the error of its current
\* chart (nothing for an empty chart), never that of an earlier chart.
C29_LatestChartWins ==
    DiagramQuiet =>
        /\ ~diagram.isLoading
        /\ IF diagram.chart = ""
           THEN diagram.error = "null" /\ diagram.svg = "null"
           ELSE \/ diagram.error = diagram.chart
                \/ diagram.error = "null" /\ diagram.svg = diagram.chart

\* ---------------------------------------------------------------------------
\* The 'dark' class (C30)
\* ---------------------------------------------------------------------------

\* The button has rendered its theme and run its effects.
ThemeQuiet ==
    /\ themeButton.mounted
    /\ themeButton.effects = "none"
    /\ themeButton.seen = themeButton.theme

\* C30: after any sequence of toggle clicks and system colour-scheme changes
\* the document carries the 'dark' class exactly when the theme is 'dark', or
\* is 'auto' and the system prefers dark.
C30_DarkClassFollowsTheme ==
    ThemeQuiet =>
        (themeButton.dark <=>
            \/ themeButton.theme = "dark"
            \/ themeButton.theme = "auto" /\ themeButton.matches)


=============================================================================
